---- MODULE Spec2Model ----
(***************************************************************************)
(* Business-calendar date arithmetic of dayjs-business: the business-day   *)
(* plugin, the financial-quarter plugin and the BillingDateService.        *)
(*                                                                         *)
(* An instant is an integer number of ticks since 1970-01-01T00:00 local   *)
(* time; a day has TicksPerDay ticks, tick 0 being the start of the day    *)
(* and tick TicksPerDay-1 its end (23:59:59.999).  Months are 0-indexed in *)
(* the getters and setters, as in dayjs, and 1-indexed in formatted text.  *)
(* A 'YYYY-MM-DD' string is the triple <<year, month 1..12, day>> of its   *)
(* three numeric fields.                                                   *)
(***************************************************************************)
EXTENDS Integers, Sequences, FiniteSets, TLC

VARIABLES date, workdays, holidays, fiscalConfig, billingConfig, rangeConfig,
          subscriptionConfig,
          heap, callerRules, factories, instances, installed,
          op, arg, result

vars == <<date, workdays, holidays, fiscalConfig, billingConfig, rangeConfig,
          subscriptionConfig,
          heap, callerRules, factories, instances, installed,
          op, arg, result>>

\* the engines' state, which the factory's operations leave alone, and the
\* factories' state, which the engines' operations leave alone
engineVars == <<date, workdays, holidays, fiscalConfig, billingConfig, rangeConfig,
                subscriptionConfig>>

factoryVars == <<heap, callerRules, factories, instances, installed>>

----------------------------------------------------------------------------
(* Bounds of the model                                                     *)

TicksPerDay == 3
MaxDays == 2
MaxHolidays == 2
WindowDays == 9
FiscalWindowDays == 365
BillingWindowDays == 49
TargetDayMargin == 2
MaxTrialDays == 2
MaxScheduleDays == 92
ScheduleWindowDays == 19
RangeWindowDays == 20
MaxSpanDays == 45
MaxCount == 3
ListWindowDays == 6
MaxRanges == 3
MaxPlugins == 2
MaxRandom == 2
MaxFactories == 2
MaxHeapObjects == 13
MaxInstances == 1
MaxCallerRules == 1
AdjustWindowDays == 6
DenseHolidayDays == 50
CycleWindowDays == 50
MaxCycleSpanDays == 100
MaxGraceDays == 3
MaxStrictFactories == 1
MaxLaterDays == 45
MaxCountSpanDays == 5

----------------------------------------------------------------------------
(* The calendar-date value (dayjs) as the plugins use it                   *)

Abs(x) == IF x < 0 THEN -x ELSE x

Min(a, b) == IF a < b THEN a ELSE b

Max(a, b) == IF a > b THEN a ELSE b

IsLeapYear(y) == (y % 4 = 0 /\ y % 100 # 0) \/ y % 400 = 0

\* number of days of month m0 (0-indexed) of year y
DaysInMonthOf(y, m0) ==
  IF m0 = 1 THEN (IF IsLeapYear(y) THEN 29 ELSE 28)
  ELSE IF m0 \in {3, 5, 8, 10} THEN 30 ELSE 31

\* day number (days since 1970-01-01) of year y, month m (1..12), day d:
\* the days of the 400-year eras before it, of the years of its era before
\* it (yoe) and of its year before it, the year counted from March 1
DaysFromEra(era, yoe, doy) ==
  era * 146097 + yoe * 365 + yoe \div 4 - yoe \div 100 + doy - 719468

DaysFromMarchYear(yy, mp, d) ==
  DaysFromEra(yy \div 400, yy % 400, (153 * mp + 2) \div 5 + d - 1)

DaysFromCivil(y, m, d) ==
  DaysFromMarchYear(IF m <= 2 THEN y - 1 ELSE y, IF m > 2 THEN m - 3 ELSE m + 9, d)

\* <<year, month 1..12, day>> of a day number, by the inverse steps
CivilFromMonth(y, doy, mp) ==
  <<IF mp < 10 THEN y ELSE y + 1,
    IF mp < 10 THEN mp + 3 ELSE mp - 9,
    doy - (153 * mp + 2) \div 5 + 1>>

CivilFromYearDay(y, doy) == CivilFromMonth(y, doy, (5 * doy + 2) \div 153)

CivilFromYear(era, doe, yoe) ==
  CivilFromYearDay(yoe + era * 400, doe - (365 * yoe + yoe \div 4 - yoe \div 100))

CivilFromEra(era, doe) ==
  CivilFromYear(era, doe,
    (doe - doe \div 1460 + doe \div 36524 - doe \div 146096) \div 365)

CivilFromDays(z) ==
  CivilFromEra((z + 719468) \div 146097, (z + 719468) % 146097)

DayOf(t) == t \div TicksPerDay

TimeOf(t) == t % TicksPerDay

Instant(dayNumber, tod) == dayNumber * TicksPerDay + tod

\* date.year(), date.month() (0-indexed), date.date(), date.day() (0 = Sunday)
YearOf(t) == CivilFromDays(DayOf(t))[1]

MonthOf(t) == CivilFromDays(DayOf(t))[2] - 1

DateOf(t) == CivilFromDays(DayOf(t))[3]

DayOfWeek(t) == (DayOf(t) + 4) % 7

DaysInMonth(t) == DaysInMonthOf(YearOf(t), MonthOf(t))

\* date.format('YYYY-MM-DD')
Format(t) == CivilFromDays(DayOf(t))

\* date.add(n, 'day') and date.subtract(n, 'day')
AddDays(t, n) == t + n * TicksPerDay

StartOfDay(t) == Instant(DayOf(t), 0)

EndOfDay(t) == Instant(DayOf(t), TicksPerDay - 1)

StartOfMonth(t) == Instant(DaysFromCivil(YearOf(t), MonthOf(t) + 1, 1), 0)

\* date.date(n): the native day-of-month setter, which rolls over into the
\* neighbouring months when n is outside 1..daysInMonth
SetDate(t, n) ==
  Instant(DaysFromCivil(YearOf(t), MonthOf(t) + 1, 1) + n - 1, TimeOf(t))

\* date.month(m0): set on the first of the month, m0 outside 0..11 carrying
\* into the year, then the day-of-month clamped to the new month's length
SetYearMonth(t, y, m0) ==
  Instant(DaysFromCivil(y, m0 + 1, Min(DateOf(t), DaysInMonthOf(y, m0))), TimeOf(t))

SetMonth(t, m0) ==
  SetYearMonth(t, (YearOf(t) * 12 + m0) \div 12, (YearOf(t) * 12 + m0) % 12)

\* date.year(y): the day-of-month clamped likewise (Feb 29)
SetYear(t, y) == SetYearMonth(t, y, MonthOf(t))

\* date.add(n, 'month') and date.add(n, 'year')
AddMonths(t, n) == SetMonth(t, MonthOf(t) + n)

AddYears(t, n) == SetYear(t, YearOf(t) + n)

\* a.isBefore(b), a.isAfter(b), a.isBefore(b, 'day'), a.isSame(b, 'day')
IsBefore(a, b) == a < b

IsAfter(a, b) == a > b

IsBeforeDay(a, b) == EndOfDay(a) < b

IsSameDay(a, b) == StartOfDay(a) <= b /\ b <= EndOfDay(a)

\* a.diff(b, 'day'): whole days, truncated towards zero
DiffDays(a, b) ==
  IF a >= b THEN (a - b) \div TicksPerDay ELSE -((b - a) \div TicksPerDay)

----------------------------------------------------------------------------
(* Business-day plugin                                                     *)

DEFAULT_WORKDAYS == {1, 2, 3, 4, 5}

isWorkday(t, wd) == DayOfWeek(t) \in wd

\* HolidayHits with the recurring check dropped
HolidayHitsExactOnly(h, t) == h.date = Format(t)

\* one holiday of the list against the date: exact text match, or the
\* month and day parsed out of the holiday's text when it recurs
HolidayHits(h, t) ==
  \/ h.date = Format(t)
  \/ /\ h.recurring
     /\ LET holidayMonth == h.date[2] - 1
            holidayDay   == h.date[3]
        IN MonthOf(t) = holidayMonth /\ DateOf(t) = holidayDay

\* index of the first holiday of the list that hits, 0 for null
RECURSIVE FindHolidayFrom(_, _, _)
FindHolidayFrom(i, t, hs) ==
  IF i > Len(hs) THEN 0
  ELSE IF HolidayHits(hs[i], t) THEN i
  ELSE FindHolidayFrom(i + 1, t, hs)

findHoliday(t, hs) == FindHolidayFrom(1, t, hs)

isBusinessDay(t, wd, hs) == isWorkday(t, wd) /\ findHoliday(t, hs) = 0

isHoliday(t, hs) == findHoliday(t, hs) # 0

RECURSIVE WalkToBusinessDay(_, _, _, _)
WalkToBusinessDay(t, dir, wd, hs) ==
  IF isBusinessDay(t, wd, hs) THEN t
  ELSE WalkToBusinessDay(AddDays(t, dir), dir, wd, hs)

\* nextBusinessDay with the walk started on the date itself
nextBusinessDayFromSelf(t, wd, hs) == WalkToBusinessDay(t, 1, wd, hs)

nextBusinessDay(t, wd, hs) == WalkToBusinessDay(AddDays(t, 1), 1, wd, hs)

prevBusinessDay(t, wd, hs) == WalkToBusinessDay(AddDays(t, -1), -1, wd, hs)

\* the loop of addBusinessDays counting every day it lands on
AddCalendarDaysLoop(current, remaining, direction, wd, hs) ==
  current + remaining * direction * TicksPerDay

RECURSIVE AddBusinessDaysLoop(_, _, _, _, _)
AddBusinessDaysLoop(current, remaining, direction, wd, hs) ==
  IF remaining > 0
  THEN LET next == AddDays(current, direction)
       IN AddBusinessDaysLoop(next,
            IF isBusinessDay(next, wd, hs) THEN remaining - 1 ELSE remaining,
            direction, wd, hs)
  ELSE current

addBusinessDays(t, days, wd, hs) ==
  IF days = 0 THEN t
  ELSE AddBusinessDaysLoop(t, Abs(days), IF days > 0 THEN 1 ELSE -1, wd, hs)

subtractBusinessDays(t, days, wd, hs) == addBusinessDays(t, -days, wd, hs)

RECURSIVE BetweenLoop(_, _, _, _, _)
BetweenLoop(current, end, count, wd, hs) ==
  IF IsBeforeDay(current, end)
  THEN LET next == AddDays(current, 1)
       IN BetweenLoop(next, end,
            IF isBusinessDay(next, wd, hs) THEN count + 1 ELSE count, wd, hs)
  ELSE count

\* businessDaysBetween without the sign of the direction
businessDaysBetweenUnsigned(t, other, wd, hs) ==
  LET start == IF IsBefore(t, other) THEN t ELSE other
      end   == IF IsBefore(t, other) THEN other ELSE t
  IN BetweenLoop(start, end, 0, wd, hs)

businessDaysBetween(t, other, wd, hs) ==
  LET start == IF IsBefore(t, other) THEN t ELSE other
      end   == IF IsBefore(t, other) THEN other ELSE t
      count == BetweenLoop(start, end, 0, wd, hs)
  IN IF IsBefore(t, other) THEN count ELSE -count

\* the day of the utility functions: a workday that is on no holiday's date
IsBusinessDayInRange(current, wd, hs) ==
  /\ DayOfWeek(current) \in wd
  /\ ~\E i \in 1 .. Len(hs) : hs[i].date = Format(current)

RECURSIVE HasBusinessDaysLoop(_, _, _, _)
HasBusinessDaysLoop(current, end, wd, hs) ==
  IF IsBefore(current, end) \/ IsSameDay(current, end)
  THEN IF IsBusinessDayInRange(current, wd, hs) THEN TRUE
       ELSE HasBusinessDaysLoop(AddDays(current, 1), end, wd, hs)
  ELSE FALSE

hasBusinessDaysInRange(start, end, wd, hs) == HasBusinessDaysLoop(start, end, wd, hs)

RECURSIVE CountBusinessDaysLoop(_, _, _, _, _)
CountBusinessDaysLoop(current, end, count, wd, hs) ==
  IF IsBefore(current, end) \/ IsSameDay(current, end)
  THEN CountBusinessDaysLoop(AddDays(current, 1), end,
         IF IsBusinessDayInRange(current, wd, hs) THEN count + 1 ELSE count, wd, hs)
  ELSE count

countBusinessDaysInRange(start, end, wd, hs) == CountBusinessDaysLoop(start, end, 0, wd, hs)

\* The day-by-day walks have no bound of their own: they return only when a
\* business day lies ahead, which a non-empty workday list and a finite
\* holiday list that leaves some day of the year open guarantee.
WalkReturns(wd, hs) == wd # {}

----------------------------------------------------------------------------
(* Inputs                                                                  *)

\* 2023-12-27 (Wednesday) and the days after it, across the year's end
FirstDay == DaysFromCivil(2023, 12, 27)

InputDays == FirstDay .. (FirstDay + WindowDays)

InputInstants == {Instant(d, s) : d \in InputDays, s \in 0 .. (TicksPerDay - 1)}

HolidayDates == {<<2024, 1, 1>>, <<2022, 12, 29>>, <<2024, 1, 2>>}

Holidays == [date : HolidayDates, recurring : BOOLEAN]

HolidayLists == UNION {[1 .. k -> Holidays] : k \in 0 .. MaxHolidays}

WorkdayLists == {DEFAULT_WORKDAYS, {0, 6}, {2}, {}}

DEFAULT_FISCAL_CONFIG == [startMonth |-> 1, startDay |-> 1]

\* data-range plugin installed without options
DefaultRangeConfig == [weekStartsOn |-> 1, includeToday |-> TRUE]

\* subscription-cycle plugin installed without options
DefaultSubscriptionConfig ==
  [billingDay |-> 1, skipWeekends |-> FALSE, gracePeriod |-> 0, trialPeriod |-> 0]

DefaultBillingConfig ==
  [defaultBillingDay |-> 1, skipWeekends |-> FALSE, skipHolidays |-> FALSE,
   holidays |-> {}, gracePeriodDays |-> 0, defaultTrialDays |-> 0]

----------------------------------------------------------------------------
(* The business-day plugin installed with a configuration, and its methods *)
(* called on a date                                                        *)

\* no factory constructed yet: an empty heap of objects, no reference held by
\* the caller, no factory, no instance, no plugin installed on dayjs
NoFactories ==
  /\ heap = [arrays |-> <<>>, rules |-> <<>>]
  /\ callerRules = <<>>
  /\ factories = <<>>
  /\ instances = <<>>
  /\ installed = {}

Init ==
  /\ date \in InputInstants
  /\ workdays \in WorkdayLists
  /\ holidays \in HolidayLists
  /\ fiscalConfig = DEFAULT_FISCAL_CONFIG
  /\ billingConfig = DefaultBillingConfig
  /\ rangeConfig = DefaultRangeConfig
  /\ subscriptionConfig = DefaultSubscriptionConfig
  /\ NoFactories
  /\ op = "new"
  /\ arg = 0
  /\ result = 0

Call(name, a, r) ==
  /\ op = "new"
  /\ op' = name
  /\ arg' = a
  /\ result' = r
  /\ UNCHANGED <<engineVars, factoryVars>>

CallIsBusinessDay == Call("isBusinessDay", 0, isBusinessDay(date, workdays, holidays))

CallNextBusinessDay ==
  /\ WalkReturns(workdays, holidays)
  /\ Call("nextBusinessDay", 0, nextBusinessDay(date, workdays, holidays))

CallPrevBusinessDay ==
  /\ WalkReturns(workdays, holidays)
  /\ Call("prevBusinessDay", 0, prevBusinessDay(date, workdays, holidays))

CallAddBusinessDays ==
  \E n \in (-MaxDays) .. MaxDays :
    /\ n = 0 \/ WalkReturns(workdays, holidays)
    /\ Call("addBusinessDays", n, addBusinessDays(date, n, workdays, holidays))

CallSubtractBusinessDays ==
  \E n \in (-MaxDays) .. MaxDays :
    /\ n = 0 \/ WalkReturns(workdays, holidays)
    /\ Call("subtractBusinessDays", n, subtractBusinessDays(date, n, workdays, holidays))

CallBusinessDaysBetween ==
  \E other \in InputInstants :
    Call("businessDaysBetween", other, businessDaysBetween(date, other, workdays, holidays))

\* the end of the range: the day before the date, its day, or a later day
CountSpans == {-1, 0, 1, MaxCountSpanDays}

CallCountBusinessDaysInRange ==
  \E span \in CountSpans :
    Call("countBusinessDaysInRange", AddDays(date, span),
         countBusinessDaysInRange(date, AddDays(date, span), workdays, holidays))

CallHasBusinessDaysInRange ==
  \E span \in CountSpans :
    Call("hasBusinessDaysInRange", AddDays(date, span),
         hasBusinessDaysInRange(date, AddDays(date, span), workdays, holidays))

Next ==
  \/ CallIsBusinessDay
  \/ CallNextBusinessDay
  \/ CallPrevBusinessDay
  \/ CallAddBusinessDays
  \/ CallSubtractBusinessDays
  \/ CallBusinessDaysBetween
  \/ CallCountBusinessDaysInRange
  \/ CallHasBusinessDaysInRange

Spec == Init /\ [][Next]_vars

----------------------------------------------------------------------------
(* Financial-quarter plugin                                                *)

calculateFiscalYear(t, cfg) ==
  LET fiscalStartMonth == cfg.startMonth - 1
      fiscalStartDay   == cfg.startDay
      year  == YearOf(t)
      month == MonthOf(t)
      day   == DateOf(t)
  IN IF month < fiscalStartMonth \/ (month = fiscalStartMonth /\ day < fiscalStartDay)
     THEN year
     ELSE IF fiscalStartMonth = 0 /\ fiscalStartDay = 1
     THEN year
     ELSE year + 1

calculateFiscalQuarter(t, cfg) ==
  LET fiscalStartMonth == cfg.startMonth - 1
      currentMonth     == MonthOf(t)
      monthsFromFiscalStart ==
        IF currentMonth - fiscalStartMonth < 0
        THEN currentMonth - fiscalStartMonth + 12
        ELSE currentMonth - fiscalStartMonth
      quarterIndex == monthsFromFiscalStart \div 3
  IN quarterIndex + 1

FiscalStartYear(fiscalYear, fiscalStartMonth, fiscalStartDay) ==
  IF fiscalStartMonth > 0 \/ fiscalStartDay > 1 THEN fiscalYear - 1 ELSE fiscalYear

getFiscalYearStart(t, cfg) ==
  StartOfDay(
    SetDate(
      SetMonth(
        SetYear(t, FiscalStartYear(calculateFiscalYear(t, cfg), cfg.startMonth - 1,
                                   cfg.startDay)),
        cfg.startMonth - 1),
      cfg.startDay))

getFiscalYearEnd(t, cfg) ==
  EndOfDay(AddDays(AddYears(getFiscalYearStart(t, cfg), 1), -1))

getFiscalQuarterStart(t, cfg) ==
  LET fiscalQuarter == calculateFiscalQuarter(t, cfg)
      monthsToAdd   == (fiscalQuarter - 1) * 3
  IN StartOfDay(AddMonths(getFiscalYearStart(t, cfg), monthsToAdd))

getFiscalQuarterEnd(t, cfg) ==
  EndOfDay(AddDays(AddMonths(getFiscalQuarterStart(t, cfg), 3), -1))

fiscalQuartersBetween(t, other, cfg) ==
  LET thisTotal  == calculateFiscalYear(t, cfg) * 4 + calculateFiscalQuarter(t, cfg)
      otherTotal == calculateFiscalYear(other, cfg) * 4 + calculateFiscalQuarter(other, cfg)
  IN otherTotal - thisTotal

fiscalQuarterInfo(t, cfg) ==
  [quarter   |-> calculateFiscalQuarter(t, cfg),
   year      |-> calculateFiscalYear(t, cfg),
   startDate |-> getFiscalQuarterStart(t, cfg),
   endDate   |-> getFiscalQuarterEnd(t, cfg)]

\* Inputs: every day of 2024 at the start and at the end of the day, and
\* fiscal years starting in any month on an early, a middle or a late day
FiscalFirstDay == DaysFromCivil(2024, 1, 1)

FiscalInstants ==
  {Instant(d, s) : d \in FiscalFirstDay .. (FiscalFirstDay + FiscalWindowDays),
                   s \in {0, TicksPerDay - 1}}

FiscalConfigs == [startMonth : 1 .. 12, startDay : {1, 6, 15, 28, 29, 30, 31}]

LaterDays == {0, 1, 7, MaxLaterDays}

InitFiscal ==
  /\ date \in FiscalInstants
  /\ workdays = DEFAULT_WORKDAYS
  /\ holidays = <<>>
  /\ fiscalConfig \in FiscalConfigs
  /\ billingConfig = DefaultBillingConfig
  /\ rangeConfig = DefaultRangeConfig
  /\ subscriptionConfig = DefaultSubscriptionConfig
  /\ NoFactories
  /\ op = "new"
  /\ arg = 0
  /\ result = 0

CallFiscalYear == Call("fiscalYear", 0, calculateFiscalYear(date, fiscalConfig))

CallFiscalQuarter == Call("fiscalQuarter", 0, calculateFiscalQuarter(date, fiscalConfig))

CallFiscalQuarterInfo == Call("fiscalQuarterInfo", 0, fiscalQuarterInfo(date, fiscalConfig))

CallStartOfFiscalYear == Call("startOfFiscalYear", 0, getFiscalYearStart(date, fiscalConfig))

CallEndOfFiscalYear == Call("endOfFiscalYear", 0, getFiscalYearEnd(date, fiscalConfig))

CallStartOfFiscalQuarter == Call("startOfFiscalQuarter", 0, getFiscalQuarterStart(date, fiscalConfig))

CallEndOfFiscalQuarter == Call("endOfFiscalQuarter", 0, getFiscalQuarterEnd(date, fiscalConfig))

\* the other date: the date itself, or one some days later
CallFiscalQuartersBetween ==
  \E days \in LaterDays :
    Call("fiscalQuartersBetween", AddDays(date, days),
         fiscalQuartersBetween(date, AddDays(date, days), fiscalConfig))

NextFiscal ==
  \/ CallFiscalYear
  \/ CallFiscalQuarter
  \/ CallFiscalQuarterInfo
  \/ CallStartOfFiscalYear
  \/ CallEndOfFiscalYear
  \/ CallStartOfFiscalQuarter
  \/ CallEndOfFiscalQuarter
  \/ CallFiscalQuartersBetween

SpecFiscal == InitFiscal /\ [][NextFiscal]_vars

----------------------------------------------------------------------------
(* BillingDateService                                                      *)

MaxHolidayAttempts == 30

\* an optional argument is <<>> when omitted and <<v>> when given: a ?? b
OrDefault(a, b) == IF a = <<>> THEN b ELSE a[1]

\* a Saturday moved by one day only, onto the Sunday
SkipWeekendByOneDay(t) ==
  IF DayOfWeek(t) = 0 \/ DayOfWeek(t) = 6 THEN AddDays(t, 1) ELSE t

SkipWeekend(t) ==
  IF DayOfWeek(t) = 0 THEN AddDays(t, 1)
  ELSE IF DayOfWeek(t) = 6 THEN AddDays(t, 2)
  ELSE t

serviceIsHoliday(t, cfg) == Format(t) \in cfg.holidays

\* the holiday loop with one attempt more: attempts <= 30
RECURSIVE SkipHolidaysOneMore(_, _, _)
SkipHolidaysOneMore(adjusted, attempts, cfg) ==
  IF serviceIsHoliday(adjusted, cfg) /\ attempts <= MaxHolidayAttempts
  THEN LET moved == AddDays(adjusted, 1)
       IN SkipHolidaysOneMore(IF cfg.skipWeekends THEN SkipWeekend(moved) ELSE moved,
                              attempts + 1, cfg)
  ELSE adjusted

RECURSIVE SkipHolidays(_, _, _)
SkipHolidays(adjusted, attempts, cfg) ==
  IF serviceIsHoliday(adjusted, cfg) /\ attempts < MaxHolidayAttempts
  THEN LET moved == AddDays(adjusted, 1)
       IN SkipHolidays(IF cfg.skipWeekends THEN SkipWeekend(moved) ELSE moved,
                       attempts + 1, cfg)
  ELSE adjusted

adjustForNonBusinessDay(t, cfg) ==
  LET adjusted == IF cfg.skipWeekends THEN SkipWeekend(t) ELSE t
  IN IF cfg.skipHolidays /\ cfg.holidays # {}
     THEN SkipHolidays(adjusted, 0, cfg)
     ELSE adjusted

\* adjustBillingDay clamped from below as well
adjustBillingDayClamped(t, targetDay) ==
  SetDate(t, Max(1, Min(targetDay, DaysInMonth(t))))

\* adjustBillingDay without the clamp to the month's length
adjustBillingDayUnclamped(t, targetDay) == SetDate(t, targetDay)

adjustBillingDay(t, targetDay) == SetDate(t, Min(targetDay, DaysInMonth(t)))

getCycleMonths(cycle) ==
  CASE cycle = "weekly"    -> 0
    [] cycle = "monthly"   -> 1
    [] cycle = "quarterly" -> 3
    [] cycle = "yearly"    -> 12

\* months || 1
MonthsOrOne(months) == IF months = 0 THEN 1 ELSE months

RECURSIVE NextBillingLoop(_, _, _, _)
NextBillingLoop(nextDate, from, months, day) ==
  IF IsBefore(nextDate, from) \/ IsSameDay(nextDate, from)
  THEN NextBillingLoop(adjustBillingDay(AddMonths(nextDate, MonthsOrOne(months)), day),
                       from, months, day)
  ELSE nextDate

NextBillingDateOn(from, months, day, cfg) ==
  adjustForNonBusinessDay(
    StartOfDay(NextBillingLoop(adjustBillingDay(StartOfMonth(AddDays(from, 1)), day),
                               from, months, day)),
    cfg)

getNextBillingDate(from, cycle, billingDay, cfg) ==
  IF cycle = "weekly"
  THEN adjustForNonBusinessDay(StartOfDay(AddDays(from, 7)), cfg)
  ELSE NextBillingDateOn(from, getCycleMonths(cycle),
                         OrDefault(billingDay, cfg.defaultBillingDay), cfg)

\* the candidate of the date's own month, stepped back one cycle when it is
\* after the date or on the same day
StepBack(prevDate, from, months, day) ==
  IF IsAfter(prevDate, from) \/ IsSameDay(prevDate, from)
  THEN adjustBillingDay(AddMonths(prevDate, -MonthsOrOne(months)), day)
  ELSE prevDate

PreviousBillingDateOn(from, months, day, cfg) ==
  adjustForNonBusinessDay(
    StartOfDay(StepBack(adjustBillingDay(StartOfMonth(from), day), from, months, day)),
    cfg)

getPreviousBillingDate(from, cycle, billingDay, cfg) ==
  IF cycle = "weekly"
  THEN adjustForNonBusinessDay(StartOfDay(AddDays(from, -7)), cfg)
  ELSE PreviousBillingDateOn(from, getCycleMonths(cycle),
                             OrDefault(billingDay, cfg.defaultBillingDay), cfg)

\* a quotient of two whole numbers, kept as its two terms
Quotient(n, d) == [num |-> n, den |-> d]

BillingCycleInfoOf(current, nextBilling, previousBilling) ==
  [currentCycleStart   |-> previousBilling,
   currentCycleEnd     |-> AddDays(nextBilling, -1),
   nextBillingDate     |-> nextBilling,
   previousBillingDate |-> previousBilling,
   daysUntilBilling    |-> DiffDays(nextBilling, current),
   daysInCurrentCycle  |-> DiffDays(nextBilling, previousBilling),
   cycleProgress       |-> Quotient(DiffDays(current, previousBilling),
                                    DiffDays(nextBilling, previousBilling))]

getBillingCycleInfo(current, cycle, billingDay, cfg) ==
  BillingCycleInfoOf(current,
                     getNextBillingDate(current, cycle, billingDay, cfg),
                     getPreviousBillingDate(current, cycle, billingDay, cfg))

\* Math.min(1, n / d): 1 when the quotient is at least 1 (or +Infinity), the
\* quotient otherwise (NaN for 0 / 0, -Infinity for a negative n over 0)
MinOne(n, d) ==
  IF \/ d > 0 /\ n >= d
     \/ d < 0 /\ n <= d
     \/ d = 0 /\ n > 0
  THEN Quotient(1, 1)
  ELSE Quotient(n, d)

TrialPeriodInfoOf(start, trial, daysSinceStart) ==
  [isInTrial      |-> daysSinceStart >= 0 /\ daysSinceStart < trial,
   trialStartDate |-> start,
   trialEndDate   |-> AddDays(start, trial),
   daysRemaining  |-> Max(0, trial - daysSinceStart),
   trialProgress  |-> MinOne(daysSinceStart, trial)]

getTrialPeriodInfo(start, current, trialDays, cfg) ==
  TrialPeriodInfoOf(start, OrDefault(trialDays, cfg.defaultTrialDays),
                    DiffDays(current, start))

alignBillingDay(t, billingDay, cfg) ==
  adjustBillingDay(t, OrDefault(billingDay, cfg.defaultBillingDay))

\* subscription-cycle plugin: date.alignToBillingDay(billingDay)
alignToBillingDay(t, billingDay) == adjustBillingDay(t, billingDay)

\* the schedule's loop stopping before a billing date on the end day itself
RECURSIVE ScheduleLoopBeforeOnly(_, _, _, _, _, _)
ScheduleLoopBeforeOnly(currentBilling, end, cycle, billingDay, cfg, billingDates) ==
  IF IsBefore(currentBilling, end)
  THEN ScheduleLoopBeforeOnly(getNextBillingDate(currentBilling, cycle, billingDay, cfg),
                              end, cycle, billingDay, cfg,
                              Append(billingDates, currentBilling))
  ELSE billingDates

RECURSIVE ScheduleLoop(_, _, _, _, _, _)
ScheduleLoop(currentBilling, end, cycle, billingDay, cfg, billingDates) ==
  IF IsBefore(currentBilling, end) \/ IsSameDay(currentBilling, end)
  THEN ScheduleLoop(getNextBillingDate(currentBilling, cycle, billingDay, cfg),
                    end, cycle, billingDay, cfg,
                    Append(billingDates, currentBilling))
  ELSE billingDates

SubscriptionScheduleOf(billingDates, amountPerCycle) ==
  [billingDates |-> billingDates,
   totalCycles  |-> Len(billingDates),
   totalAmount  |-> Len(billingDates) * amountPerCycle]

generateBillingSchedule(start, end, cycle, amountPerCycle, billingDay, cfg) ==
  SubscriptionScheduleOf(
    ScheduleLoop(getNextBillingDate(start, cycle, billingDay, cfg),
                 end, cycle, billingDay, cfg, <<>>),
    amountPerCycle)

\* date.startOf('year') and date.endOf('year')
StartOfYear(t) == Instant(DaysFromCivil(YearOf(t), 1, 1), 0)

EndOfYear(t) == Instant(DaysFromCivil(YearOf(t), 12, 31), TicksPerDay - 1)

\* new BillingDateService({ defaultBillingDay: billingDay })
ServiceWithBillingDay(billingDay) ==
  [DefaultBillingConfig EXCEPT !.defaultBillingDay = billingDay]

getAnnualBillingDates(now, year, cycle, billingDay) ==
  generateBillingSchedule(StartOfYear(SetYear(now, year)), EndOfYear(SetYear(now, year)),
                          cycle, 0, <<billingDay>>,
                          ServiceWithBillingDay(billingDay)).billingDates

\* Inputs: the days from 2024-01-13 (a Saturday) over the end of January and
\* the leap day, services with and without deferral
BillingFirstDay == DaysFromCivil(2024, 1, 13)

BillingInstants ==
  {Instant(d, s) : d \in BillingFirstDay .. (BillingFirstDay + BillingWindowDays),
                   s \in {0, TicksPerDay - 1}}

Cycles == {"weekly", "monthly", "quarterly", "yearly"}

BillingDayArgs == {<<>>} \cup {<<d>> : d \in {1, 15, 29, 30, 31}}

TargetDays == (1 - TargetDayMargin) .. (31 + TargetDayMargin)

TrialDayArgs == {<<>>} \cup {<<n>> : n \in 0 .. MaxTrialDays}

BillingHolidays == {<<2024, 1, 15>>, <<2024, 1, 16>>, <<2024, 2, 29>>}

BillingConfigs ==
  [defaultBillingDay : {1, 31}, skipWeekends : BOOLEAN, skipHolidays : BOOLEAN,
   holidays : {{}, BillingHolidays}, gracePeriodDays : {0}, defaultTrialDays : {MaxTrialDays}]

InitBilling ==
  /\ date \in BillingInstants
  /\ workdays = DEFAULT_WORKDAYS
  /\ holidays = <<>>
  /\ fiscalConfig = DEFAULT_FISCAL_CONFIG
  /\ billingConfig \in BillingConfigs
  /\ rangeConfig = DefaultRangeConfig
  /\ subscriptionConfig = DefaultSubscriptionConfig
  /\ NoFactories
  /\ op = "new"
  /\ arg = 0
  /\ result = 0

CallGetNextBillingDate ==
  \E cycle \in Cycles, billingDay \in BillingDayArgs :
    Call("getNextBillingDate", [cycle |-> cycle, billingDay |-> billingDay],
         getNextBillingDate(date, cycle, billingDay, billingConfig))

CallGetPreviousBillingDate ==
  \E cycle \in Cycles, billingDay \in BillingDayArgs :
    Call("getPreviousBillingDate", [cycle |-> cycle, billingDay |-> billingDay],
         getPreviousBillingDate(date, cycle, billingDay, billingConfig))

CallGetBillingCycleInfo ==
  \E cycle \in Cycles, billingDay \in BillingDayArgs :
    Call("getBillingCycleInfo", [cycle |-> cycle, billingDay |-> billingDay],
         getBillingCycleInfo(date, cycle, billingDay, billingConfig))

CallGetTrialPeriodInfo ==
  \E shift \in (-MaxTrialDays - 1) .. (MaxTrialDays + 1),
     tod \in 0 .. (TicksPerDay - 1), trialDays \in TrialDayArgs :
    LET current == Instant(DayOf(date) + shift, tod)
    IN Call("getTrialPeriodInfo", [current |-> current, trialDays |-> trialDays],
            getTrialPeriodInfo(date, current, trialDays, billingConfig))

CallAlignBillingDay ==
  \E targetDay \in TargetDays :
    Call("alignBillingDay", targetDay, alignBillingDay(date, <<targetDay>>, billingConfig))

CallAlignToBillingDay ==
  \E targetDay \in TargetDays :
    Call("alignToBillingDay", targetDay, alignToBillingDay(date, targetDay))

NextBilling ==
  \/ CallGetNextBillingDate
  \/ CallGetPreviousBillingDate
  \/ CallGetBillingCycleInfo
  \/ CallGetTrialPeriodInfo
  \/ CallAlignBillingDay
  \/ CallAlignToBillingDay

SpecBilling == InitBilling /\ [][NextBilling]_vars

----------------------------------------------------------------------------
(* Billing schedules of the BillingDateService                             *)

\* Inputs: schedules starting on the days from 2024-01-13 to the start of
\* February, of services that defer or not, with holidays on billing days
ScheduleInstants ==
  {Instant(d, s) : d \in BillingFirstDay .. (BillingFirstDay + ScheduleWindowDays),
                   s \in {0, TicksPerDay - 1}}

ScheduleConfigs ==
  [defaultBillingDay : {31}, skipWeekends : BOOLEAN, skipHolidays : BOOLEAN,
   holidays : {BillingHolidays}, gracePeriodDays : {0}, defaultTrialDays : {0}]

InitSchedule ==
  /\ date \in ScheduleInstants
  /\ workdays = DEFAULT_WORKDAYS
  /\ holidays = <<>>
  /\ fiscalConfig = DEFAULT_FISCAL_CONFIG
  /\ billingConfig \in ScheduleConfigs
  /\ rangeConfig = DefaultRangeConfig
  /\ subscriptionConfig = DefaultSubscriptionConfig
  /\ NoFactories
  /\ op = "new"
  /\ arg = 0
  /\ result = 0

\* the end of a schedule, in days after its start: before it, on it, within
\* the first cycle and after several cycles
ScheduleSpans == {-1, 0, 7, 31, MaxScheduleDays}

Amounts == {0, 5}

CallGenerateBillingSchedule ==
  \E span \in ScheduleSpans, tod \in {0, TicksPerDay - 1}, cycle \in Cycles,
     amountPerCycle \in Amounts, billingDay \in BillingDayArgs :
    Call("generateBillingSchedule",
         [end |-> Instant(DayOf(date) + span, tod), cycle |-> cycle,
          amountPerCycle |-> amountPerCycle, billingDay |-> billingDay],
         generateBillingSchedule(date, Instant(DayOf(date) + span, tod), cycle,
                                 amountPerCycle, billingDay, billingConfig))

CallGetAnnualBillingDates ==
  \E year \in {2023, 2024}, cycle \in Cycles, billingDay \in {1, 31} :
    Call("getAnnualBillingDates",
         [year |-> year, cycle |-> cycle, billingDay |-> billingDay],
         getAnnualBillingDates(date, year, cycle, billingDay))

NextSchedule ==
  \/ CallGenerateBillingSchedule
  \/ CallGetAnnualBillingDates

SpecSchedule == InitSchedule /\ [][NextSchedule]_vars

----------------------------------------------------------------------------
(* Data-range plugin                                                       *)

\* date.endOf('month'), date.startOf('quarter'), date.endOf('quarter') and,
\* the week running from Sunday to Saturday, date.startOf('week') and
\* date.endOf('week')
EndOfMonth(t) ==
  Instant(DaysFromCivil(YearOf(t), MonthOf(t) + 1, DaysInMonth(t)), TicksPerDay - 1)

StartOfQuarter(t) ==
  Instant(DaysFromCivil(YearOf(t), (MonthOf(t) \div 3) * 3 + 1, 1), 0)

EndOfQuarter(t) == EndOfMonth(AddMonths(StartOfQuarter(t), 2))

StartOfWeek(t) == Instant(DayOf(t) - DayOfWeek(t), 0)

EndOfWeek(t) == Instant(DayOf(t) - DayOfWeek(t) + 6, TicksPerDay - 1)

\* date.endOf(unit)
EndOf(t, unit) ==
  CASE unit = "day"     -> EndOfDay(t)
    [] unit = "week"    -> EndOfWeek(t)
    [] unit = "month"   -> EndOfMonth(t)
    [] unit = "quarter" -> EndOfQuarter(t)
    [] unit = "year"    -> EndOfYear(t)

\* getWeekStart with the offset taken the other way round
getWeekStartForward(t, cfg) ==
  StartOfDay(AddDays(t, -((cfg.weekStartsOn - DayOfWeek(t) + 7) % 7)))

getWeekStart(t, cfg) ==
  StartOfDay(AddDays(t, -((DayOfWeek(t) - cfg.weekStartsOn + 7) % 7)))

getWeekEnd(t, cfg) == EndOfDay(AddDays(getWeekStart(t, cfg), 6))

\* createRange without the normalisation of its two ends
createRangeAsGiven(start, end, label) ==
  [start |-> start, end |-> end, label |-> label]

createRange(start, end, label) ==
  [start |-> StartOfDay(start), end |-> EndOfDay(end), label |-> label]

\* the last day of a 'last N days' range
LastDaysEnd(today, cfg) == IF cfg.includeToday THEN today ELSE AddDays(today, -1)

LastDays(today, days, label, cfg) ==
  createRange(AddDays(LastDaysEnd(today, cfg), -(days - 1)), LastDaysEnd(today, cfg), label)

RangePresets ==
  {"today", "yesterday", "thisWeek", "lastWeek", "thisMonth", "lastMonth",
   "thisQuarter", "lastQuarter", "thisYear", "lastYear", "last7Days",
   "last14Days", "last30Days", "last60Days", "last90Days", "last365Days",
   "monthToDate", "quarterToDate", "yearToDate", "allTime"}

\* the switch of range(preset) on today = this.startOf('day')
PresetRange(today, preset, cfg) ==
  CASE preset = "today" -> createRange(today, today, "Today")
    [] preset = "yesterday" ->
         createRange(AddDays(today, -1), AddDays(today, -1), "Yesterday")
    [] preset = "thisWeek" ->
         createRange(getWeekStart(today, cfg), getWeekEnd(today, cfg), "This Week")
    [] preset = "lastWeek" ->
         createRange(getWeekStart(AddDays(getWeekStart(today, cfg), -1), cfg),
                     AddDays(getWeekStart(today, cfg), -1), "Last Week")
    [] preset = "thisMonth" ->
         createRange(StartOfMonth(today), EndOfMonth(today), "This Month")
    [] preset = "lastMonth" ->
         createRange(StartOfMonth(AddMonths(today, -1)), EndOfMonth(AddMonths(today, -1)),
                     "Last Month")
    [] preset = "thisQuarter" ->
         createRange(StartOfQuarter(today), EndOfQuarter(today), "This Quarter")
    [] preset = "lastQuarter" ->
         createRange(StartOfQuarter(AddMonths(today, -3)),
                     EndOfQuarter(AddMonths(today, -3)), "Last Quarter")
    [] preset = "thisYear" ->
         createRange(StartOfYear(today), EndOfYear(today), "This Year")
    [] preset = "lastYear" ->
         createRange(StartOfYear(AddYears(today, -1)), EndOfYear(AddYears(today, -1)),
                     "Last Year")
    [] preset = "last7Days"   -> LastDays(today, 7, "Last 7 Days", cfg)
    [] preset = "last14Days"  -> LastDays(today, 14, "Last 14 Days", cfg)
    [] preset = "last30Days"  -> LastDays(today, 30, "Last 30 Days", cfg)
    [] preset = "last60Days"  -> LastDays(today, 60, "Last 60 Days", cfg)
    [] preset = "last90Days"  -> LastDays(today, 90, "Last 90 Days", cfg)
    [] preset = "last365Days" -> LastDays(today, 365, "Last 365 Days", cfg)
    [] preset = "monthToDate" ->
         createRange(StartOfMonth(today), today, "Month to Date")
    [] preset = "quarterToDate" ->
         createRange(StartOfQuarter(today), today, "Quarter to Date")
    [] preset = "yearToDate" ->
         createRange(StartOfYear(today), today, "Year to Date")
    [] preset = "allTime" ->
         createRange(AddYears(today, -100), today, "All Time")

range(t, preset, cfg) == PresetRange(StartOfDay(t), preset, cfg)

customRange(start, end, label) == createRange(start, end, OrDefault(label, "Custom Range"))

\* the label `Last ${n} Days` (Weeks, Months) as its number and its unit
rangeFromDays(t, days, cfg) ==
  createRange(AddDays(LastDaysEnd(t, cfg), -(days - 1)), LastDaysEnd(t, cfg),
              <<"Last", days, "Days">>)

rangeFromWeeks(t, weeks, cfg) ==
  createRange(AddDays(getWeekStart(t, cfg), -7 * (weeks - 1)), getWeekEnd(t, cfg),
              <<"Last", weeks, "Weeks">>)

rangeFromMonths(t, months) ==
  createRange(StartOfMonth(AddMonths(t, -(months - 1))), EndOfMonth(t),
              <<"Last", months, "Months">>)

comparePreviousPeriod(r) ==
  createRange(AddDays(AddDays(r.start, -1), -(DiffDays(r.end, r.start) + 1 - 1)),
              AddDays(r.start, -1), "Previous Period")

compareYearOverYear(r) ==
  createRange(AddYears(r.start, -1), AddYears(r.end, -1), "Year Over Year")

\* the bucket's end taken at the unit's end, also beyond the range's end
SplitEndAtPeriodEnd(periodEnd, rangeEnd) == periodEnd

\* actualEnd = periodEnd.isAfter(range.end) ? range.end : periodEnd
SplitEnd(periodEnd, rangeEnd) ==
  IF IsAfter(periodEnd, rangeEnd) THEN rangeEnd ELSE periodEnd

RECURSIVE SplitLoop(_, _, _, _)
SplitLoop(current, r, unit, ranges) ==
  IF IsBefore(current, r.end) \/ IsSameDay(current, r.end)
  THEN SplitLoop(StartOfDay(AddDays(EndOf(current, unit), 1)), r, unit,
                 Append(ranges, createRange(current, SplitEnd(EndOf(current, unit), r.end),
                                            "undefined")))
  ELSE ranges

splitRange(r, unit) == SplitLoop(r.start, r, unit, <<>>)

isInRange(t, r) ==
  /\ IsAfter(t, r.start) \/ IsSameDay(t, r.start)
  /\ IsBefore(t, r.end) \/ IsSameDay(t, r.end)

overlapsRange(r, other) == IsBefore(r.start, other.end) /\ IsAfter(r.end, other.start)

\* [...ranges].sort((a, b) => a.start.valueOf() - b.start.valueOf()): a
\* stable sort, each range put after those that start no later than it
RECURSIVE InsertByStart(_, _)
InsertByStart(sorted, r) ==
  IF sorted = <<>> THEN <<r>>
  ELSE IF sorted[Len(sorted)].start <= r.start THEN Append(sorted, r)
  ELSE Append(InsertByStart(SubSeq(sorted, 1, Len(sorted) - 1), r), sorted[Len(sorted)])

RECURSIVE SortByStartFrom(_, _, _)
SortByStartFrom(ranges, i, sorted) ==
  IF i > Len(ranges) THEN sorted
  ELSE SortByStartFrom(ranges, i + 1, InsertByStart(sorted, ranges[i]))

SortByStart(ranges) == SortByStartFrom(ranges, 1, <<>>)

\* the merge test reaching one day less far
MergesIntoOverlapOnly(current, last) == IsBefore(current.start, AddDays(last.end, 1))

\* current.start.isBefore(last.end.add(2, 'day'))
MergesInto(current, last) == IsBefore(current.start, AddDays(last.end, 2))

MergedWith(last, current) ==
  [start |-> last.start,
   end   |-> IF IsAfter(current.end, last.end) THEN current.end ELSE last.end,
   label |-> "Merged Range"]

\* the merge loop testing each range against the one sorted before it
\* instead of the merged range
RECURSIVE MergeLoopAgainstPrevious(_, _, _)
MergeLoopAgainstPrevious(sorted, i, merged) ==
  IF i > Len(sorted) THEN merged
  ELSE IF MergesInto(sorted[i], sorted[i - 1])
  THEN MergeLoopAgainstPrevious(sorted, i + 1,
         [merged EXCEPT ![Len(merged)] = MergedWith(merged[Len(merged)], sorted[i])])
  ELSE MergeLoopAgainstPrevious(sorted, i + 1, Append(merged, sorted[i]))

RECURSIVE MergeLoop(_, _, _)
MergeLoop(sorted, i, merged) ==
  IF i > Len(sorted) THEN merged
  ELSE IF MergesInto(sorted[i], merged[Len(merged)])
  THEN MergeLoop(sorted, i + 1,
                 [merged EXCEPT ![Len(merged)] = MergedWith(merged[Len(merged)], sorted[i])])
  ELSE MergeLoop(sorted, i + 1, Append(merged, sorted[i]))

MergeSorted(sorted) == MergeLoop(sorted, 2, <<sorted[1]>>)

mergeRanges(ranges) ==
  IF Len(ranges) = 0 THEN <<>> ELSE MergeSorted(SortByStart(ranges))

GapBetween(prev, current) ==
  [start |-> AddDays(prev.end, 1), end |-> AddDays(current.start, -1), label |-> "Gap"]

RECURSIVE GapLoop(_, _, _)
GapLoop(sorted, i, gaps) ==
  IF i > Len(sorted) THEN gaps
  ELSE IF IsAfter(sorted[i].start, AddDays(sorted[i - 1].end, 1))
  THEN GapLoop(sorted, i + 1, Append(gaps, GapBetween(sorted[i - 1], sorted[i])))
  ELSE GapLoop(sorted, i + 1, gaps)

findRangeGaps(ranges) ==
  IF Len(ranges) < 2 THEN <<>> ELSE GapLoop(SortByStart(ranges), 2, <<>>)

----------------------------------------------------------------------------
(* AnalyticsRangeService                                                   *)

\* date.week(): the week of the year, weeks running from Sunday and week 1
\* holding January 1
WeekOfYear(t) ==
  IF /\ MonthOf(t) = 11
     /\ DateOf(t) > 25
     /\ IsBefore(AddYears(StartOfYear(t), 1), EndOfWeek(t))
  THEN 1
  ELSE (t - StartOfWeek(StartOfYear(t))) \div (7 * TicksPerDay) + 1

\* date.quarter()
QuarterOf(t) == MonthOf(t) \div 3 + 1

\* the label's fields: 'MMM D', `Week ${w}`, 'MMM YYYY', `Q${q} ${y}`, 'YYYY'
getBucketLabel(t, unit) ==
  CASE unit = "day"     -> <<MonthOf(t) + 1, DateOf(t)>>
    [] unit = "week"    -> <<"Week", WeekOfYear(t)>>
    [] unit = "month"   -> <<MonthOf(t) + 1, YearOf(t)>>
    [] unit = "quarter" -> <<"Q", QuarterOf(t), YearOf(t)>>
    [] unit = "year"    -> <<YearOf(t)>>

DateBucket(current, bucketEnd, r, unit, index) ==
  [start |-> current,
   end   |-> IF IsAfter(bucketEnd, r.end) THEN r.end ELSE bucketEnd,
   label |-> getBucketLabel(current, unit),
   index |-> index]

RECURSIVE BucketLoop(_, _, _, _)
BucketLoop(current, r, unit, buckets) ==
  IF IsBefore(current, r.end) \/ IsSameDay(current, r.end)
  THEN BucketLoop(StartOfDay(AddDays(EndOf(current, unit), 1)), r, unit,
                  Append(buckets,
                         DateBucket(current, EndOf(current, unit), r, unit, Len(buckets))))
  ELSE buckets

splitIntoBuckets(r, unit) == BucketLoop(r.start, r, unit, <<>>)

\* sorted.reduce((max, r) => r.end.isAfter(max) ? r.end : max, sorted[0].end)
RECURSIVE MaxEndFrom(_, _, _)
MaxEndFrom(sorted, i, max) ==
  IF i > Len(sorted) THEN max
  ELSE MaxEndFrom(sorted, i + 1, IF IsAfter(sorted[i].end, max) THEN sorted[i].end ELSE max)

MergedRangeOf(sorted) ==
  createRange(sorted[1].start, MaxEndFrom(sorted, 1, sorted[1].end), "Merged Range")

\* a thrown Error as the value the call ends with
Thrown(message) == [error |-> message]

\* the service's mergeRanges returning an empty list for an empty list
serviceMergeRangesEmptyList(ranges) ==
  IF Len(ranges) = 0 THEN <<>> ELSE MergedRangeOf(SortByStart(ranges))

\* AnalyticsRangeService.mergeRanges
serviceMergeRanges(ranges) ==
  IF Len(ranges) = 0 THEN Thrown("Cannot merge empty ranges array")
  ELSE MergedRangeOf(SortByStart(ranges))

----------------------------------------------------------------------------
(* The data-range plugin installed with a configuration, its methods       *)
(* called on a date, and the AnalyticsRangeService's buckets               *)

\* Inputs: the days from 2023-12-28 (a Thursday) across the year's end, every
\* first day of the week, ranges of one day up to several weeks
RangeFirstDay == DaysFromCivil(2023, 12, 28)

RangeInstants ==
  {Instant(d, s) : d \in RangeFirstDay .. (RangeFirstDay + RangeWindowDays),
                   s \in 0 .. (TicksPerDay - 1)}

RangeConfigs == [weekStartsOn : 0 .. 6, includeToday : BOOLEAN]

Units == {"day", "week", "month", "quarter", "year"}

RangeSpans == {0, 1, 6, 31, MaxSpanDays}

\* date.customRange(dayjs(start), dayjs(end)) of two days
RangeOfDays(startDay, endDay) ==
  customRange(Instant(startDay, 0), Instant(endDay, 0), <<>>)

InitRange ==
  /\ date \in RangeInstants
  /\ workdays = DEFAULT_WORKDAYS
  /\ holidays = <<>>
  /\ fiscalConfig = DEFAULT_FISCAL_CONFIG
  /\ billingConfig = DefaultBillingConfig
  /\ rangeConfig \in RangeConfigs
  /\ subscriptionConfig = DefaultSubscriptionConfig
  /\ NoFactories
  /\ op = "new"
  /\ arg = 0
  /\ result = 0

CallRange ==
  \E preset \in RangePresets : Call("range", [preset |-> preset], range(date, preset, rangeConfig))

CallCustomRange ==
  \E shift \in -1 .. 2, tod \in 0 .. (TicksPerDay - 1), label \in {<<>>, <<"Sprint">>} :
    Call("customRange", [end |-> Instant(DayOf(date) + shift, tod), label |-> label],
         customRange(date, Instant(DayOf(date) + shift, tod), label))

CallRangeFromDays ==
  \E days \in 0 .. MaxCount :
    Call("rangeFromDays", [days |-> days],
         rangeFromDays(date, days, rangeConfig))

CallRangeFromWeeks ==
  \E weeks \in 0 .. MaxCount :
    Call("rangeFromWeeks", [weeks |-> weeks], rangeFromWeeks(date, weeks, rangeConfig))

CallRangeFromMonths ==
  \E months \in 0 .. MaxCount :
    Call("rangeFromMonths", [months |-> months], rangeFromMonths(date, months))

CallComparePreviousPeriod ==
  \E span \in RangeSpans :
    Call("comparePreviousPeriod", RangeOfDays(DayOf(date), DayOf(date) + span),
         comparePreviousPeriod(RangeOfDays(DayOf(date), DayOf(date) + span)))

CallCompareYearOverYear ==
  \E span \in RangeSpans :
    Call("compareYearOverYear", RangeOfDays(DayOf(date), DayOf(date) + span),
         compareYearOverYear(RangeOfDays(DayOf(date), DayOf(date) + span)))

CallSplitRange ==
  \E span \in RangeSpans, unit \in Units :
    Call("splitRange", [range |-> RangeOfDays(DayOf(date), DayOf(date) + span), unit |-> unit],
         splitRange(RangeOfDays(DayOf(date), DayOf(date) + span), unit))

CallSplitIntoBuckets ==
  \E span \in RangeSpans, unit \in Units :
    Call("splitIntoBuckets",
         [range |-> RangeOfDays(DayOf(date), DayOf(date) + span), unit |-> unit],
         splitIntoBuckets(RangeOfDays(DayOf(date), DayOf(date) + span), unit))

CallIsInRange ==
  \E from \in -1 .. 1, span \in 0 .. 1 :
    Call("isInRange", RangeOfDays(DayOf(date) + from, DayOf(date) + from + span),
         isInRange(date, RangeOfDays(DayOf(date) + from, DayOf(date) + from + span)))

CallOverlapsRange ==
  \E from \in -2 .. 2, span \in 0 .. 1 :
    Call("overlapsRange", RangeOfDays(DayOf(date) + from, DayOf(date) + from + span),
         overlapsRange(RangeOfDays(DayOf(date), DayOf(date) + 1),
                       RangeOfDays(DayOf(date) + from, DayOf(date) + from + span)))

NextRange ==
  \/ CallRange
  \/ CallCustomRange
  \/ CallRangeFromDays
  \/ CallRangeFromWeeks
  \/ CallRangeFromMonths
  \/ CallComparePreviousPeriod
  \/ CallCompareYearOverYear
  \/ CallSplitRange
  \/ CallSplitIntoBuckets
  \/ CallIsInRange
  \/ CallOverlapsRange

SpecRange == InitRange /\ [][NextRange]_vars

----------------------------------------------------------------------------
(* Lists of ranges: mergeRanges and findRangeGaps of the data-range        *)
(* plugin's module and mergeRanges of the AnalyticsRangeService, beside    *)
(* the plugin's methods                                                    *)

\* Inputs: custom ranges of the days from the date on, of one day, of three
\* days and inverted (ending the day before they start), in lists of any
\* order
RangeLengths == {-1, 0, 2}

ListRanges(firstDay) ==
  {RangeOfDays(d, d + n) : d \in firstDay .. (firstDay + ListWindowDays),
                           n \in RangeLengths}

RangeLists(firstDay) == UNION {[1 .. k -> ListRanges(firstDay)] : k \in 0 .. MaxRanges}

RangeListInstants == {Instant(RangeFirstDay, 0), Instant(RangeFirstDay + 4, TicksPerDay - 1)}

InitRangeList ==
  /\ date \in RangeListInstants
  /\ workdays = DEFAULT_WORKDAYS
  /\ holidays = <<>>
  /\ fiscalConfig = DEFAULT_FISCAL_CONFIG
  /\ billingConfig = DefaultBillingConfig
  /\ rangeConfig = DefaultRangeConfig
  /\ subscriptionConfig = DefaultSubscriptionConfig
  /\ NoFactories
  /\ op = "new"
  /\ arg = 0
  /\ result = 0

CallMergeRanges ==
  /\ op = "new"
  /\ \E ranges \in RangeLists(DayOf(date)) : Call("mergeRanges", [ranges |-> ranges], mergeRanges(ranges))

CallFindRangeGaps ==
  /\ op = "new"
  /\ \E ranges \in RangeLists(DayOf(date)) : Call("findRangeGaps", [ranges |-> ranges], findRangeGaps(ranges))

CallServiceMergeRanges ==
  /\ op = "new"
  /\ \E ranges \in RangeLists(DayOf(date)) :
       Call("AnalyticsRangeService.mergeRanges", [ranges |-> ranges],
            serviceMergeRanges(ranges))

NextRangeList ==
  \/ NextRange
  \/ CallMergeRanges
  \/ CallFindRangeGaps
  \/ CallServiceMergeRanges

SpecRangeList == InitRangeList /\ [][NextRangeList]_vars

----------------------------------------------------------------------------
(* DayjsFactory: the plugin registry and the scoped configuration of a     *)
(* factory, with the objects of the configuration on a heap.  An array is  *)
(* the sequence of its items and a businessRules object holds the          *)
(* references of its workdays and holidays arrays; a reference is an       *)
(* index of the heap and NoRef is undefined.  Locale, timezone, strict     *)
(* and debugMode are primitive values that are copied, and are left at     *)
(* their defaults: strict is true, so configurations are validated.        *)

NoRef == 0

ElementsOf(seq) == {seq[i] : i \in 1 .. Len(seq)}

\* a plugin function: its identity and its name, "" for an anonymous one
PluginNames == {"testPlugin", ""}

PluginFuncs == [id : 1 .. MaxPlugins, name : PluginNames]

\* the core plugins the constructor extends dayjs with
utc == [id |-> -1, name |-> ""]

timezone == [id |-> -2, name |-> ""]

\* plugin.name || `plugin_${Math.random().toString(36).substring(2, 9)}`:
\* the keys a call may compute, the random text being one of MaxRandom
plugin_random == {[name |-> "plugin_", random |-> r] : r \in 1 .. MaxRandom}

getPluginKey(plugin) ==
  IF plugin.name # "" THEN {[name |-> plugin.name, random |-> 0]} ELSE plugin_random

\* PluginRegistry over its Map, in insertion order, with the key computed
has(plugins, key) == \E i \in 1 .. Len(plugins) : plugins[i].key = key

register(plugins, plugin, key) ==
  IF has(plugins, key) THEN plugins ELSE Append(plugins, [key |-> key, plugin |-> plugin])

getPlugins(plugins) == [i \in 1 .. Len(plugins) |-> plugins[i].plugin]

getPluginCount(plugins) == Len(plugins)

\* for (const plugin of config.plugins) this.registry.register(plugin): the
\* registries the loop may leave
RECURSIVE registerEach(_, _, _)
registerEach(plugins, list, i) ==
  IF i > Len(list) THEN {plugins}
  ELSE UNION {registerEach(register(plugins, list[i], key), list, i + 1) :
                key \in getPluginKey(list[i])}

DEFAULT_BUSINESS_RULES == [workdays |-> <<1, 2, 3, 4, 5>>, holidays |-> <<>>]

DEFAULT_CONFIG == [locale |-> "en", timezone |-> "UTC", strict |-> TRUE]

\* the options of a configuration besides businessRules and plugins, each
\* <<>> when omitted
NoOptions == [timezone |-> <<>>, locale |-> <<>>, strict |-> <<>>]

HeapSize(h) == Len(h.arrays) + Len(h.rules)

\* The validators: the message of the ValidationError thrown, "" when the
\* value passes.  The strings of the inputs that match TIMEZONE_PATTERN,
\* UTC_PATTERN or OFFSET_PATTERN, and those that match LOCALE_PATTERN
MatchesTimezonePattern(tz) == tz \in {"UTC", "Asia/Shanghai", "+08:00"}

MatchesLocalePattern(locale) == locale \in {"en", "ja", "zh-cn"}

validateTimezone(tz) ==
  IF tz = "" THEN "Timezone cannot be empty"
  ELSE IF ~MatchesTimezonePattern(tz) THEN "Invalid timezone format"
  ELSE ""

validateLocale(locale) ==
  IF locale = "" THEN "Locale cannot be empty"
  ELSE IF ~MatchesLocalePattern(locale) THEN "Invalid locale format"
  ELSE ""

\* the holidays of the inputs are valid Holiday objects
validateBusinessRules(h, rules) ==
  IF h.rules[rules].workdays = NoRef THEN "Workdays must be an array"
  ELSE IF \E i \in 1 .. Len(h.arrays[h.rules[rules].workdays]) :
            h.arrays[h.rules[rules].workdays][i] \notin 0 .. 6
  THEN "Workday must be an integer between 0-6"
  ELSE IF h.rules[rules].holidays = NoRef THEN "Holidays must be an array"
  ELSE ""

\* if (x) of a string: the empty string is falsy
Truthy(string) == string # ""

\* the first error of a sequence of validations
FirstError(errors) ==
  IF \A i \in 1 .. Len(errors) : errors[i] = "" THEN ""
  ELSE errors[CHOOSE i \in 1 .. Len(errors) :
                /\ errors[i] # ""
                /\ \A j \in 1 .. (i - 1) : errors[j] = ""]

\* a new businessRules object of two new arrays
NewRules(h, wd, hs) ==
  [heap |-> [arrays |-> h.arrays \o <<wd, hs>>,
             rules |-> Append(h.rules, [workdays |-> Len(h.arrays) + 1,
                                        holidays |-> Len(h.arrays) + 2])],
   ref |-> Len(h.rules) + 1]

\* deepClone(DEFAULT_BUSINESS_RULES)
deepCloneDefaults(h) ==
  NewRules(h, DEFAULT_BUSINESS_RULES.workdays, DEFAULT_BUSINESS_RULES.holidays)

\* { workdays: custom.workdays ?? defaults.workdays,
\*   holidays: custom.holidays ? deepClone(custom.holidays) : defaults.holidays }
mergeBusinessRules(h, defaults, custom) ==
  LET cloned == h.rules[custom].holidays # NoRef
      arrays == IF cloned THEN Append(h.arrays, h.arrays[h.rules[custom].holidays])
                ELSE h.arrays
  IN [heap |-> [arrays |-> arrays,
                rules |-> Append(h.rules,
                  [workdays |-> IF h.rules[custom].workdays # NoRef
                                THEN h.rules[custom].workdays
                                ELSE h.rules[defaults].workdays,
                   holidays |-> IF cloned THEN Len(arrays)
                                ELSE h.rules[defaults].holidays])],
      ref |-> Len(h.rules) + 1]

\* ConfigManager.mergeWithDefaults: the heap after it and the reference of
\* the configuration's businessRules
mergeWithDefaults(h, businessRules) ==
  IF businessRules # NoRef
  THEN mergeBusinessRules(deepCloneDefaults(h).heap, deepCloneDefaults(h).ref, businessRules)
  ELSE deepCloneDefaults(h)

\* what getConfig() returns: Object.freeze({ ...this.config }), whose
\* businessRules is the configuration's own object, read through
getConfig(h, factory) ==
  [locale |-> factory.locale,
   timezone |-> factory.timezone,
   strict |-> factory.strict,
   businessRules |->
     [workdays |-> h.arrays[h.rules[factory.businessRules].workdays],
      holidays |-> h.arrays[h.rules[factory.businessRules].holidays]]]

\* validateConfig of the constructor, on the merged configuration
validateConfig(h, factory) ==
  IF ~factory.strict THEN ""
  ELSE FirstError(<<IF Truthy(factory.timezone) THEN validateTimezone(factory.timezone) ELSE "",
                    IF Truthy(factory.locale) THEN validateLocale(factory.locale) ELSE "",
                    validateBusinessRules(h, factory.businessRules)>>)

\* the validation of configure, on the updates, in strict mode
validateUpdates(h, factory, updates) ==
  IF ~factory.strict THEN ""
  ELSE FirstError(<<IF updates.timezone # <<>> /\ Truthy(updates.timezone[1])
                    THEN validateTimezone(updates.timezone[1]) ELSE "",
                    IF updates.locale # <<>> /\ Truthy(updates.locale[1])
                    THEN validateLocale(updates.locale[1]) ELSE "",
                    IF updates.businessRules # NoRef
                    THEN validateBusinessRules(h, updates.businessRules) ELSE "">>)

\* isBusinessDay of an instance the factory created, which reads the
\* businessRules of the configuration it was created with
instanceIsBusinessDay(h, instance) ==
  LET wd == h.arrays[h.rules[instance.businessRules].workdays]
      hs == h.arrays[h.rules[instance.businessRules].holidays]
      t == Instant(instance.date, 0)
  IN /\ \E i \in 1 .. Len(wd) : wd[i] = DayOfWeek(t)
     /\ \A i \in 1 .. Len(hs) :
          /\ hs[i].date # instance.date
          /\ ~ /\ hs[i].recurring
               /\ MonthOf(t) = MonthOf(Instant(hs[i].date, 0))
               /\ DateOf(t) = DateOf(Instant(hs[i].date, 0))

\* an operation of a factory or of its caller: the engines' state stays
FactoryCall(name, a, r) ==
  /\ op' = name
  /\ arg' = a
  /\ result' = r
  /\ UNCHANGED engineVars

\* new DayjsFactory(config): the registry, the ConfigManager, the plugins of
\* the configuration registered and extended, then validateConfig, which
\* throws out of the constructor: no factory then
NewFactory(config) ==
  /\ Len(factories) < MaxFactories
  /\ HeapSize(heap) + 5 <= MaxHeapObjects
  /\ \E plugins \in registerEach(<<>>, config.plugins, 1) :
       LET merged == mergeWithDefaults(heap, config.businessRules)
           factory == [plugins |-> plugins,
                       businessRules |-> merged.ref,
                       locale |-> OrDefault(config.locale, DEFAULT_CONFIG.locale),
                       timezone |-> OrDefault(config.timezone, DEFAULT_CONFIG.timezone),
                       strict |-> OrDefault(config.strict, DEFAULT_CONFIG.strict)]
           error == validateConfig(merged.heap, factory)
       IN /\ installed' = installed \cup {utc, timezone} \cup ElementsOf(config.plugins)
          /\ UNCHANGED <<callerRules, instances>>
          /\ IF error = ""
             THEN /\ heap' = merged.heap
                  /\ factories' = Append(factories, factory)
                  /\ FactoryCall("new DayjsFactory", config, Len(factories) + 1)
             ELSE /\ UNCHANGED <<heap, factories>>
                  /\ FactoryCall("new DayjsFactory", config, Thrown(error))

\* use(plugin): skipped if this.registry.has(plugin), else registered and
\* extended; each of has and register computes the plugin's key
use(f, plugin) ==
  \E hasKey \in getPluginKey(plugin), registerKey \in getPluginKey(plugin) :
    /\ IF has(factories[f].plugins, hasKey)
       THEN UNCHANGED <<factories, installed>>
       ELSE /\ factories' = [factories EXCEPT ![f].plugins = register(@, plugin, registerKey)]
            /\ installed' = installed \cup {plugin}
    /\ UNCHANGED <<heap, callerRules, instances>>
    /\ FactoryCall("use", [factory |-> f, plugin |-> plugin], f)

\* hasPlugin(plugin), getPluginCount() and getRegisteredPlugins()
hasPlugin(f, plugin) ==
  \E key \in getPluginKey(plugin) :
    /\ UNCHANGED factoryVars
    /\ FactoryCall("hasPlugin", [factory |-> f, plugin |-> plugin],
                   has(factories[f].plugins, key))

CallGetPluginCount(f) ==
  /\ UNCHANGED factoryVars
  /\ FactoryCall("getPluginCount", [factory |-> f], getPluginCount(factories[f].plugins))

getRegisteredPlugins(f) ==
  /\ UNCHANGED factoryVars
  /\ FactoryCall("getRegisteredPlugins", [factory |-> f], getPlugins(factories[f].plugins))

\* configure(updates): when the configuration is strict the timezone, the
\* locale and the rules of the updates are validated, the rules failing
\* without a holidays array; then updateConfig merges
\* { ...this.config, ...updates } with the defaults
configure(f, updates) ==
  IF validateUpdates(heap, factories[f], updates) # ""
  THEN /\ UNCHANGED factoryVars
       /\ FactoryCall("configure", [factory |-> f, updates |-> updates],
                      Thrown(validateUpdates(heap, factories[f], updates)))
  ELSE /\ HeapSize(heap) + 5 <= MaxHeapObjects
       /\ LET businessRules == IF updates.businessRules # NoRef THEN updates.businessRules
                               ELSE factories[f].businessRules
          IN /\ heap' = mergeWithDefaults(heap, businessRules).heap
             /\ factories' = [factories EXCEPT
                  ![f].businessRules = mergeWithDefaults(heap, businessRules).ref,
                  ![f].locale = OrDefault(updates.locale, @),
                  ![f].timezone = OrDefault(updates.timezone, @),
                  ![f].strict = OrDefault(updates.strict, @)]
       /\ UNCHANGED <<callerRules, instances, installed>>
       /\ FactoryCall("configure", [factory |-> f, updates |-> updates], 0)

\* create({ input }): an instance with { ...config, ...options }, which
\* holds the configuration's businessRules object
create(f, day) ==
  /\ Len(instances) < MaxInstances
  /\ instances' = Append(instances,
       [factory |-> f, date |-> day, businessRules |-> factories[f].businessRules])
  /\ UNCHANGED <<heap, callerRules, factories, installed>>
  /\ FactoryCall("create", [factory |-> f, input |-> day], Len(instances) + 1)

CallGetConfig(f) ==
  /\ UNCHANGED factoryVars
  /\ FactoryCall("getConfig", [factory |-> f], getConfig(heap, factories[f]))

CallInstanceIsBusinessDay(i) ==
  /\ UNCHANGED factoryVars
  /\ FactoryCall("instance.isBusinessDay", [instance |-> i],
                 instanceIsBusinessDay(heap, instances[i]))

\* The caller: it builds a businessRules object, with or without holidays,
\* and later pushes to an array of a businessRules object, one of its own or
\* the businessRules of a value that getConfig() returned, or gives an
\* object of its own another array
CallerBuildsRules(wd, hs, withHolidays) ==
  /\ Len(callerRules) < MaxCallerRules
  /\ HeapSize(heap) + 3 <= MaxHeapObjects
  /\ heap' = IF withHolidays THEN NewRules(heap, wd, hs).heap
             ELSE [arrays |-> Append(heap.arrays, wd),
                   rules |-> Append(heap.rules, [workdays |-> Len(heap.arrays) + 1,
                                                 holidays |-> NoRef])]
  /\ callerRules' = Append(callerRules, Len(heap.rules) + 1)
  /\ UNCHANGED <<factories, instances, installed>>
  /\ FactoryCall("businessRules = { workdays, holidays }",
                 [workdays |-> wd, holidays |-> IF withHolidays THEN <<hs>> ELSE <<>>],
                 Len(heap.rules) + 1)

Push(name, rules, field, item) ==
  /\ heap.rules[rules][field] # NoRef
  /\ item \notin ElementsOf(heap.arrays[heap.rules[rules][field]])
  /\ heap' = [heap EXCEPT !.arrays[heap.rules[rules][field]] = Append(@, item)]
  /\ UNCHANGED <<callerRules, factories, instances, installed>>
  /\ FactoryCall(name, [businessRules |-> rules, field |-> field, items |-> <<item>>], 0)

Assign(name, rules, field, items) ==
  /\ HeapSize(heap) + 1 <= MaxHeapObjects
  /\ IF heap.rules[rules][field] = NoRef THEN TRUE
     ELSE heap.arrays[heap.rules[rules][field]] # items
  /\ heap' = [arrays |-> Append(heap.arrays, items),
              rules |-> [heap.rules EXCEPT ![rules][field] = Len(heap.arrays) + 1]]
  /\ UNCHANGED <<callerRules, factories, instances, installed>>
  /\ FactoryCall(name, [businessRules |-> rules, field |-> field, items |-> items], 0)

----------------------------------------------------------------------------
(* The registry of a factory under use() calls                             *)

RegistryConfigs ==
  [businessRules : {NoRef},
   plugins : {<<>>} \cup {<<p>> : p \in PluginFuncs} \cup {<<p, p>> : p \in PluginFuncs},
   timezone : {<<>>}, locale : {<<>>}, strict : {<<>>}]

InitRegistry ==
  /\ date = Instant(DaysFromCivil(2024, 1, 13), 0)
  /\ workdays = DEFAULT_WORKDAYS
  /\ holidays = <<>>
  /\ fiscalConfig = DEFAULT_FISCAL_CONFIG
  /\ billingConfig = DefaultBillingConfig
  /\ rangeConfig = DefaultRangeConfig
  /\ subscriptionConfig = DefaultSubscriptionConfig
  /\ NoFactories
  /\ op = "new"
  /\ arg = 0
  /\ result = 0

CallNewFactory == \E config \in RegistryConfigs : NewFactory(config)

CallUse == \E f \in 1 .. Len(factories), plugin \in PluginFuncs : use(f, plugin)

CallHasPlugin == \E f \in 1 .. Len(factories), plugin \in PluginFuncs : hasPlugin(f, plugin)

CallGetPluginCountOf == \E f \in 1 .. Len(factories) : CallGetPluginCount(f)

CallGetRegisteredPlugins == \E f \in 1 .. Len(factories) : getRegisteredPlugins(f)

NextRegistry ==
  \/ CallNewFactory
  \/ CallUse
  \/ CallHasPlugin
  \/ CallGetPluginCountOf
  \/ CallGetRegisteredPlugins

SpecRegistry == InitRegistry /\ [][NextRegistry]_vars

----------------------------------------------------------------------------
(* The configuration of a factory, its caller holding the objects it gave  *)
(* and the values getConfig() returned                                     *)

FactorySaturday == DaysFromCivil(2024, 1, 13)

FactoryMonday == DaysFromCivil(2024, 1, 15)

FactoryWorkdays == {<<1, 2, 3, 4>>}

TestHoliday == [date |-> FactoryMonday, recurring |-> FALSE]

RecurringHoliday == [date |-> DaysFromCivil(2023, 1, 15), recurring |-> TRUE]

FactoryHolidays == {<<>>, <<TestHoliday>>}

\* what the caller pushes to an array and what it replaces an array with
PushItems(field) == IF field = "workdays" THEN {6} ELSE {RecurringHoliday}

AssignItems(field) == IF field = "workdays" THEN {<<1, 2, 3, 4, 5, 6>>} ELSE {<<RecurringHoliday>>}

Fields == {"workdays", "holidays"}

InitConfig ==
  /\ date = Instant(FactorySaturday, 0)
  /\ workdays = DEFAULT_WORKDAYS
  /\ holidays = <<>>
  /\ fiscalConfig = DEFAULT_FISCAL_CONFIG
  /\ billingConfig = DefaultBillingConfig
  /\ rangeConfig = DefaultRangeConfig
  /\ subscriptionConfig = DefaultSubscriptionConfig
  /\ NoFactories
  /\ op = "new"
  /\ arg = 0
  /\ result = 0

CallCallerBuildsRules ==
  \E wd \in FactoryWorkdays, hs \in FactoryHolidays, withHolidays \in BOOLEAN :
    /\ ~withHolidays => hs = <<>>
    /\ CallerBuildsRules(wd, hs, withHolidays)

CallNewFactoryOfRules ==
  \E businessRules \in {NoRef} \cup ElementsOf(callerRules) :
    NewFactory([businessRules |-> businessRules, plugins |-> <<>>] @@ NoOptions)

CallConfigure ==
  \E f \in 1 .. Len(factories), businessRules \in {NoRef} \cup ElementsOf(callerRules) :
    configure(f, [businessRules |-> businessRules] @@ NoOptions)

CallCreate ==
  \E f \in 1 .. Len(factories), day \in {FactorySaturday, FactoryMonday} : create(f, day)

CallGetConfigOf == \E f \in 1 .. Len(factories) : CallGetConfig(f)

CallInstanceIsBusinessDayOf == \E i \in 1 .. Len(instances) : CallInstanceIsBusinessDay(i)

CallerPushes ==
  \E rules \in ElementsOf(callerRules), field \in Fields :
    \E item \in PushItems(field) : Push("businessRules[field].push", rules, field, item)

CallerAssigns ==
  \E rules \in ElementsOf(callerRules), field \in Fields :
    \E items \in AssignItems(field) : Assign("businessRules[field] =", rules, field, items)

GetConfigPushes ==
  \E f \in 1 .. Len(factories), field \in Fields :
    \E item \in PushItems(field) :
      Push("getConfig().businessRules[field].push", factories[f].businessRules, field, item)

NextConfig ==
  \/ CallCallerBuildsRules
  \/ CallNewFactoryOfRules
  \/ CallConfigure
  \/ CallCreate
  \/ CallGetConfigOf
  \/ CallInstanceIsBusinessDayOf
  \/ CallerPushes
  \/ CallerAssigns
  \/ GetConfigPushes

SpecConfig == InitConfig /\ [][NextConfig]_vars


----------------------------------------------------------------------------
(* The validation of a factory's configuration in strict mode              *)

\* Inputs: one factory; timezones that match the patterns, that do not, and
\* the empty string; a locale that does not match; rules with valid workdays
\* and with a day out of 0..6; strict given or omitted
Timezones == {"Asia/Shanghai", "invalid", ""}

Locales == {"x"}

Optional(values) == {<<>>} \cup {<<v>> : v \in values}

StrictWorkdays == {<<1, 2, 3, 4>>, <<7>>}

StrictOptions ==
  [timezone : Optional(Timezones), locale : Optional(Locales), strict : Optional(BOOLEAN)]

InitStrict ==
  /\ date = Instant(FactorySaturday, 0)
  /\ workdays = DEFAULT_WORKDAYS
  /\ holidays = <<>>
  /\ fiscalConfig = DEFAULT_FISCAL_CONFIG
  /\ billingConfig = DefaultBillingConfig
  /\ rangeConfig = DefaultRangeConfig
  /\ subscriptionConfig = DefaultSubscriptionConfig
  /\ NoFactories
  /\ op = "new"
  /\ arg = 0
  /\ result = 0

CallCallerBuildsStrictRules ==
  \E wd \in StrictWorkdays, withHolidays \in BOOLEAN : CallerBuildsRules(wd, <<>>, withHolidays)

CallNewFactoryOfOptions ==
  /\ Len(factories) < MaxStrictFactories
  /\ \E businessRules \in {NoRef} \cup ElementsOf(callerRules), options \in StrictOptions :
       NewFactory([businessRules |-> businessRules, plugins |-> <<>>] @@ options)

CallConfigureOptions ==
  \E f \in 1 .. Len(factories), businessRules \in {NoRef} \cup ElementsOf(callerRules),
     options \in StrictOptions :
    configure(f, [businessRules |-> businessRules] @@ options)

NextStrict ==
  \/ CallCallerBuildsStrictRules
  \/ CallNewFactoryOfOptions
  \/ CallConfigureOptions
  \/ CallGetConfigOf

SpecStrict == InitStrict /\ [][NextStrict]_vars

----------------------------------------------------------------------------
(* adjustForNonBusinessDay of the BillingDateService, called by every      *)
(* billing-date method, on a date and a configuration of its own           *)

\* Inputs: the days of a week from a Friday on, and holiday lists that are
\* runs of consecutive days: none, one day, three days, as many days as the
\* loop has attempts, and more days than any 30 steps pass
AdjustFirstDay == DaysFromCivil(2024, 1, 12)

AdjustInstants ==
  {Instant(d, s) : d \in AdjustFirstDay .. (AdjustFirstDay + AdjustWindowDays),
                   s \in {0, TicksPerDay - 1}}

HolidayRun(firstDay, n) == {Format(Instant(d, 0)) : d \in firstDay .. (firstDay + n - 1)}

HolidayRunLengths == {0, 1, 3, MaxHolidayAttempts, DenseHolidayDays}

AdjustConfigs ==
  [defaultBillingDay : {1}, skipWeekends : BOOLEAN, skipHolidays : BOOLEAN,
   holidays : {HolidayRun(AdjustFirstDay + k, n) : k \in {0, 3}, n \in HolidayRunLengths},
   gracePeriodDays : {0}, defaultTrialDays : {0}]

InitAdjust ==
  /\ date \in AdjustInstants
  /\ workdays = DEFAULT_WORKDAYS
  /\ holidays = <<>>
  /\ fiscalConfig = DEFAULT_FISCAL_CONFIG
  /\ billingConfig \in AdjustConfigs
  /\ rangeConfig = DefaultRangeConfig
  /\ subscriptionConfig = DefaultSubscriptionConfig
  /\ NoFactories
  /\ op = "new"
  /\ arg = 0
  /\ result = 0

CallAdjustForNonBusinessDay ==
  Call("adjustForNonBusinessDay", [date |-> date], adjustForNonBusinessDay(date, billingConfig))

NextAdjust == CallAdjustForNonBusinessDay

SpecAdjust == InitAdjust /\ [][NextAdjust]_vars


----------------------------------------------------------------------------
(* The subscription-cycle plugin and the BillingDateService on one date    *)

DEFAULT_BILLING_DAY == 1

\* the % of JavaScript: the remainder has the sign of the dividend
Remainder(a, b) == IF a >= 0 THEN a % b ELSE -((-a) % b)

skipWeekendIfNeeded(t, cfg) == IF ~cfg.skipWeekends THEN t ELSE SkipWeekend(t)

\* daysUntilNext === 7 ? 0 : daysUntilNext, and a week more when that is today
NextWeeklyDate(t, daysUntilNext) ==
  LET next == AddDays(t, IF daysUntilNext = 7 THEN 0 ELSE daysUntilNext)
  IN IF IsSameDay(next, t) \/ IsBefore(next, t) THEN AddDays(next, 7) ELSE next

\* the billing day of the next month, moved on by the cycle's months when it
\* is not after the date
NextCycleDate(t, months, day) ==
  LET nextDate == adjustBillingDay(SetDate(AddMonths(t, 1), 1), day)
  IN IF IsBefore(nextDate, t) \/ IsSameDay(nextDate, t)
     THEN adjustBillingDay(AddMonths(nextDate, months), day)
     ELSE nextDate

nextBillingDate(t, cycle, billingDay, cfg) ==
  LET day == OrDefault(billingDay, cfg.billingDay)
  IN IF cycle = "weekly"
     THEN skipWeekendIfNeeded(
            StartOfDay(NextWeeklyDate(t, 7 - Remainder(DayOfWeek(t) - day + 7, 7))), cfg)
     ELSE skipWeekendIfNeeded(StartOfDay(NextCycleDate(t, getCycleMonths(cycle), day)), cfg)

RECURSIVE BillingDatesLoop(_, _, _, _, _, _)
BillingDatesLoop(current, end, cycle, billingDay, cfg, dates) ==
  IF IsBefore(current, end) \/ IsSameDay(current, end)
  THEN BillingDatesLoop(nextBillingDate(current, cycle, <<billingDay>>, cfg), end,
                        cycle, billingDay, cfg, Append(dates, current))
  ELSE dates

getBillingDatesInRange(start, end, cycle, billingDay, cfg) ==
  BillingDatesLoop(nextBillingDate(start, cycle, <<billingDay>>, cfg), end,
                   cycle, billingDay, cfg, <<>>)

isDueForRenewal(currentDate, cycle, billingDay, gracePeriodDays, cfg) ==
  DiffDays(nextBillingDate(currentDate, cycle, billingDay, cfg), currentDate)
    <= OrDefault(gracePeriodDays, 0)

\* isBillingDue due only while the days until billing are below the grace
\* period
isBillingDueBelowGrace(current, cycle, billingDay, cfg) ==
  DiffDays(getNextBillingDate(current, cycle, billingDay, cfg), current)
    < cfg.gracePeriodDays

isBillingDue(current, cycle, billingDay, cfg) ==
  DiffDays(getNextBillingDate(current, cycle, billingDay, cfg), current)
    <= cfg.gracePeriodDays

\* Inputs: the days from 2024-01-13 over the ends of January and February,
\* plugins and services that skip weekends or not, grace periods of 0 to 3 days
CycleInstants ==
  {Instant(d, s) : d \in BillingFirstDay .. (BillingFirstDay + CycleWindowDays),
                   s \in {0, TicksPerDay - 1}}

CycleBillingDays == {1, 15, 31}

CycleSpans == {0, 45, MaxCycleSpanDays}

GracePeriods == {0, 1, MaxGraceDays}

SubscriptionConfigs ==
  [billingDay : {DEFAULT_BILLING_DAY}, skipWeekends : BOOLEAN,
   gracePeriod : {0}, trialPeriod : {0}]

CycleServiceConfigs ==
  [defaultBillingDay : {1}, skipWeekends : BOOLEAN, skipHolidays : {FALSE},
   holidays : {{}}, gracePeriodDays : GracePeriods, defaultTrialDays : {0}]

InitCycle ==
  /\ date \in CycleInstants
  /\ workdays = DEFAULT_WORKDAYS
  /\ holidays = <<>>
  /\ fiscalConfig = DEFAULT_FISCAL_CONFIG
  /\ billingConfig \in CycleServiceConfigs
  /\ rangeConfig = DefaultRangeConfig
  /\ subscriptionConfig \in SubscriptionConfigs
  /\ NoFactories
  /\ op = "new"
  /\ arg = 0
  /\ result = 0

CallNextBillingDate ==
  \E cycle \in Cycles, billingDay \in {<<>>} \cup {<<d>> : d \in CycleBillingDays} :
    Call("nextBillingDate", [cycle |-> cycle, billingDay |-> billingDay],
         nextBillingDate(date, cycle, billingDay, subscriptionConfig))

CallGetBillingDatesInRange ==
  \E span \in CycleSpans, cycle \in Cycles, billingDay \in CycleBillingDays :
    LET end == AddDays(date, span)
    IN Call("getBillingDatesInRange",
            [end |-> end, cycle |-> cycle, billingDay |-> billingDay],
            getBillingDatesInRange(date, end, cycle, billingDay, subscriptionConfig))

CallIsDueForRenewal ==
  \E cycle \in Cycles, billingDay \in {<<>>} \cup {<<d>> : d \in CycleBillingDays},
     gracePeriodDays \in {<<>>} \cup {<<g>> : g \in GracePeriods} :
    Call("isDueForRenewal",
         [cycle |-> cycle, billingDay |-> billingDay, gracePeriodDays |-> gracePeriodDays],
         isDueForRenewal(date, cycle, billingDay, gracePeriodDays, subscriptionConfig))

CallIsBillingDue ==
  \E cycle \in Cycles, billingDay \in {<<>>} \cup {<<d>> : d \in CycleBillingDays} :
    Call("isBillingDue", [cycle |-> cycle, billingDay |-> billingDay],
         isBillingDue(date, cycle, billingDay, billingConfig))

NextCycle ==
  \/ CallNextBillingDate
  \/ CallGetBillingDatesInRange
  \/ CallIsDueForRenewal
  \/ CallIsBillingDue

SpecCycle == InitCycle /\ [][NextCycle]_vars

----------------------------------------------------------------------------
(* Properties of the business-day plugin                                   *)

\* a holiday of the list falls on day number dn: its text is that day, or it
\* recurs and has that day's month and day-of-month
HolidayOn(dn, hs) ==
  \E i \in 1 .. Len(hs) :
    \/ hs[i].date = CivilFromDays(dn)
    \/ /\ hs[i].recurring
       /\ hs[i].date[2] = CivilFromDays(dn)[2]
       /\ hs[i].date[3] = CivilFromDays(dn)[3]

BusinessDayOn(dn, wd, hs) == (dn + 4) % 7 \in wd /\ ~HolidayOn(dn, hs)

\* number of business days among the day numbers lo..hi
BusinessDaysIn(lo, hi, wd, hs) ==
  Cardinality({k \in lo .. hi : BusinessDayOn(k, wd, hs)})

\* C1: isBusinessDay(d) is true exactly when d's day of week is a workday and
\* no holiday matches d, a holiday matching by its exact date text or, when
\* recurring, by month and day-of-month whatever its year.
C1_IsBusinessDay ==
  op = "isBusinessDay" =>
    (result <=> BusinessDayOn(DayOf(date), workdays, holidays))

\* a workday ruled out only by a recurring holiday dated in another year
C1_Witness ==
  /\ op = "isBusinessDay"
  /\ result = FALSE
  /\ DayOfWeek(date) \in workdays
  /\ \A i \in 1 .. Len(holidays) : holidays[i].date # Format(date)
  /\ \E i \in 1 .. Len(holidays) :
       holidays[i].recurring /\ holidays[i].date[1] # YearOf(date)

\* C2: nextBusinessDay(d) is the earliest business day strictly after d, and
\* prevBusinessDay(d) the latest business day strictly before d.
C2_NextPrevBusinessDay ==
  /\ op = "nextBusinessDay" =>
       /\ DayOf(result) > DayOf(date)
       /\ BusinessDayOn(DayOf(result), workdays, holidays)
       /\ \A k \in (DayOf(date) + 1) .. (DayOf(result) - 1) :
            ~BusinessDayOn(k, workdays, holidays)
  /\ op = "prevBusinessDay" =>
       /\ DayOf(result) < DayOf(date)
       /\ BusinessDayOn(DayOf(result), workdays, holidays)
       /\ \A k \in (DayOf(result) + 1) .. (DayOf(date) - 1) :
            ~BusinessDayOn(k, workdays, holidays)

\* the next business day lies beyond a weekend extended by a holiday
C2_Witness ==
  /\ op = "nextBusinessDay"
  /\ workdays = DEFAULT_WORKDAYS
  /\ DayOf(result) - DayOf(date) >= 4

\* C3: addBusinessDays(d, 0) is d; for n # 0 the result lies on the side of d
\* that the sign of n names, is a business day, and exactly |n| business days
\* lie between d (exclusive) and the result (inclusive);
\* subtractBusinessDays(d, n) is addBusinessDays(d, -n).
LandsAfter(n) ==
  /\ n = 0 => result = date
  /\ n > 0 =>
       /\ DayOf(result) > DayOf(date)
       /\ BusinessDayOn(DayOf(result), workdays, holidays)
       /\ BusinessDaysIn(DayOf(date) + 1, DayOf(result), workdays, holidays) = n
  /\ n < 0 =>
       /\ DayOf(result) < DayOf(date)
       /\ BusinessDayOn(DayOf(result), workdays, holidays)
       /\ BusinessDaysIn(DayOf(result), DayOf(date) - 1, workdays, holidays) = -n

C3_AddBusinessDays ==
  /\ op = "addBusinessDays" => LandsAfter(arg)
  /\ op = "subtractBusinessDays" => LandsAfter(-arg)

\* two business days back from a date, over days that are not business days
C3_Witness ==
  /\ op = "addBusinessDays"
  /\ arg = -MaxDays
  /\ DayOf(date) - DayOf(result) > MaxDays

\* C4: businessDaysBetween(a, b) is the number of business days strictly
\* after the earlier and up to and including the later of the two days,
\* negated when a is after b; so swapping a and b negates the result.
C4_BusinessDaysBetween ==
  op = "businessDaysBetween" =>
    LET lo == Min(DayOf(date), DayOf(arg))
        hi == Max(DayOf(date), DayOf(arg))
        n  == BusinessDaysIn(lo + 1, hi, workdays, holidays)
    IN /\ result = (IF date > arg THEN -n ELSE n)
       /\ businessDaysBetween(arg, date, workdays, holidays) = -result

\* a backwards count over several business days
C4_Witness ==
  /\ op = "businessDaysBetween"
  /\ DayOf(arg) < DayOf(date)
  /\ result <= -3

----------------------------------------------------------------------------
(* Properties of the financial-quarter plugin                              *)

\* C5: under every fiscal configuration with startMonth in 1..12 and startDay
\* in 1..31, startOfFiscalQuarter(d) <= d <= endOfFiscalQuarter(d).
C5_QuarterContainsDate ==
  /\ op = "startOfFiscalQuarter" => result <= date
  /\ op = "endOfFiscalQuarter" => date <= result
  /\ op = "fiscalQuarterInfo" => result.startDate <= date /\ date <= result.endDate

\* the start of a fiscal year as the configuration names it
IsConfiguredStart(t) ==
  /\ MonthOf(t) + 1 = fiscalConfig.startMonth
  /\ DateOf(t) = fiscalConfig.startDay
  /\ TimeOf(t) = 0

\* C6: startOfFiscalYear(d) is the configured (startMonth, startDay) of the
\* calendar year that begins the fiscal year containing d, so that
\* startOfFiscalYear(d) <= d <= endOfFiscalYear(d), endOfFiscalYear being
\* startOfFiscalYear + 1 year - 1 day; unless the fiscal year starts on Jan 1,
\* fiscalYear(d) is the calendar year of startOfFiscalYear(d) plus one.
C6_FiscalYearContainsDate ==
  /\ op = "startOfFiscalYear" => IsConfiguredStart(result) /\ result <= date
  /\ op = "endOfFiscalYear" =>
       /\ date <= result
       /\ IsConfiguredStart(AddDays(StartOfDay(result), 1))
  /\ (op = "fiscalYear" /\ fiscalConfig # DEFAULT_FISCAL_CONFIG) =>
       result = YearOf(getFiscalYearStart(date, fiscalConfig)) + 1

----------------------------------------------------------------------------
(* Properties of the BillingDateService                                    *)

DeferralDisabled == ~billingConfig.skipWeekends /\ ~billingConfig.skipHolidays

\* day-of-month and length of the month of a day number
DayOfMonthOn(dn) == CivilFromDays(dn)[3]

MonthLengthOn(dn) == DaysInMonthOf(CivilFromDays(dn)[1], CivilFromDays(dn)[2] - 1)

\* day number dn is a billing day for billing day bd
IsBillingDayOn(dn, bd) == DayOfMonthOn(dn) = Min(bd, MonthLengthOn(dn))

\* C7: for the monthly, quarterly and yearly cycles with deferral disabled,
\* getNextBillingDate(date, cycle, billingDay) is strictly after date (by day)
\* and its day-of-month is min(billingDay, days in its month); for the monthly
\* cycle it is the earliest such date, so that from a date before the billing
\* day it stays in the month, and from Jan 31 with billing day 31 it is the
\* last day of February.
C7_NextBillingDate ==
  (op = "getNextBillingDate" /\ arg.cycle # "weekly" /\ DeferralDisabled) =>
    LET bd == OrDefault(arg.billingDay, billingConfig.defaultBillingDay)
    IN /\ DayOf(result) > DayOf(date)
       /\ IsBillingDayOn(DayOf(result), bd)
       /\ arg.cycle = "monthly" =>
            /\ \A k \in (DayOf(date) + 1) .. (DayOf(result) - 1) : ~IsBillingDayOn(k, bd)
            /\ DateOf(date) < Min(bd, DaysInMonth(date)) =>
                 MonthOf(result) = MonthOf(date) /\ YearOf(result) = YearOf(date)
            /\ (Format(date) = <<2024, 1, 31>> /\ bd = 31) =>
                 Format(result) = <<2024, 2, 29>>

\* the monthly billing date after Jan 31 for billing day 31 is clamped to Feb 29
C7_Witness ==
  /\ op = "getNextBillingDate"
  /\ arg.cycle = "monthly"
  /\ DeferralDisabled
  /\ Format(date) = <<2024, 1, 31>>
  /\ OrDefault(arg.billingDay, billingConfig.defaultBillingDay) = 31
  /\ Format(result) = <<2024, 2, 29>>

\* C8: for every integer targetDay, below 1 and above 31 included,
\* alignBillingDay / alignToBillingDay (adjustBillingDay) returns a date of the
\* month and year of its input whose day-of-month is
\* clamp(targetDay, 1, daysInMonth(date)).
C8_AdjustBillingDay ==
  op \in {"alignBillingDay", "alignToBillingDay"} =>
    /\ YearOf(result) = YearOf(date)
    /\ MonthOf(result) = MonthOf(date)
    /\ DateOf(result) = Max(1, Min(arg, DaysInMonth(date)))

\* C9: getBillingCycleInfo returns cycleProgress = (date - previousBillingDate)
\* / (nextBillingDate - previousBillingDate) in days, which is 0 when date is
\* itself a billing date and within [0, 1) on every date.
C9_CycleProgress ==
  op = "getBillingCycleInfo" =>
    LET bd == OrDefault(arg.billingDay, billingConfig.defaultBillingDay)
        p  == result.cycleProgress
    IN /\ p.num = DiffDays(date, result.previousBillingDate)
       /\ p.den = DiffDays(result.nextBillingDate, result.previousBillingDate)
       /\ (arg.cycle # "weekly" /\ IsBillingDayOn(DayOf(date), bd)) => p.num = 0
       /\ 0 <= p.num /\ p.num < p.den

\* C10: with elapsed the whole days from start to current, getTrialPeriodInfo
\* returns isInTrial exactly when 0 <= elapsed < trialDays, daysRemaining =
\* max(0, trialDays - elapsed) and trialProgress = clamp(elapsed / trialDays,
\* 0, 1), which is within [0, 1] also when current is before start.
C10_TrialPeriodInfo ==
  op = "getTrialPeriodInfo" =>
    LET trial   == OrDefault(arg.trialDays, billingConfig.defaultTrialDays)
        elapsed == DiffDays(arg.current, date)
        clamped == Max(0, Min(elapsed, trial))
        p       == result.trialProgress
    IN trial > 0 =>
         /\ result.isInTrial <=> (0 <= elapsed /\ elapsed < trial)
         /\ result.daysRemaining = Max(0, trial - elapsed)
         /\ p.den > 0 /\ p.num * trial = clamped * p.den
         /\ 0 <= p.num /\ p.num <= p.den

\* dates is the schedule of the billing dates after start up to the day of
\* end: each is the next billing date of the one before it (the first of
\* start), they increase strictly, lie after the day of start and not after
\* the day of end, and the next billing date after the last lies after end
IsScheduleFrom(dates, start, end, cycle, billingDay, cfg) ==
  /\ \A i \in 1 .. Len(dates) :
       /\ DayOf(dates[i]) > DayOf(start)
       /\ DayOf(dates[i]) <= DayOf(end)
       /\ dates[i] = getNextBillingDate(IF i = 1 THEN start ELSE dates[i - 1],
                                        cycle, billingDay, cfg)
  /\ \A i \in 1 .. (Len(dates) - 1) : dates[i] < dates[i + 1]
  /\ DayOf(getNextBillingDate(IF dates = <<>> THEN start ELSE dates[Len(dates)],
                              cycle, billingDay, cfg)) > DayOf(end)

----------------------------------------------------------------------------
(* Properties of the data-range plugin and the AnalyticsRangeService       *)

\* C12: for every reference date and every weekStartsOn in 0..6, the
\* 'thisWeek' range starts on the latest day on or before the reference date
\* whose day of week is weekStartsOn and ends 6 days later, so it spans
\* exactly 7 days and contains the reference date; for Wednesday 2024-01-17
\* with weekStartsOn = 1 it is 2024-01-15 .. 2024-01-21.
C12_ThisWeek ==
  (op = "range" /\ arg.preset = "thisWeek") =>
    /\ DayOfWeek(result.start) = rangeConfig.weekStartsOn
    /\ DayOf(result.start) <= DayOf(date)
    /\ DayOf(date) - DayOf(result.start) < 7
    /\ DayOf(result.end) = DayOf(result.start) + 6
    /\ TimeOf(result.start) = 0 /\ TimeOf(result.end) = TicksPerDay - 1
    /\ DiffDays(AddDays(StartOfDay(result.end), 1), result.start) = 7
    /\ result.start <= date /\ date <= result.end
    /\ (Format(date) = <<2024, 1, 17>> /\ rangeConfig.weekStartsOn = 1) =>
         Format(result.start) = <<2024, 1, 15>> /\ Format(result.end) = <<2024, 1, 21>>

\* the week of a date whose day of week comes before the week's first day:
\* it started six days earlier
C12_Witness ==
  /\ op = "range"
  /\ arg.preset = "thisWeek"
  /\ DayOfWeek(date) < rangeConfig.weekStartsOn
  /\ DayOf(date) - DayOf(result.start) = 6
  /\ result.label = "This Week"

\* the period of a unit that an instant lies in: the day, the week from
\* Sunday, the month, the quarter or the year
PeriodOf(t, unit) ==
  CASE unit = "day"     -> <<DayOf(t)>>
    [] unit = "week"    -> <<(DayOf(t) + 4) \div 7>>
    [] unit = "month"   -> <<YearOf(t), MonthOf(t)>>
    [] unit = "quarter" -> <<YearOf(t), MonthOf(t) \div 3>>
    [] unit = "year"    -> <<YearOf(t)>>

\* the buckets, in their order, divide the range: the first starts at its
\* start, the last ends at its end, each next one starts on the day after
\* the one before it ends, and each lies within one period of the unit
DividesRange(buckets, r, unit) ==
  /\ Len(buckets) >= 1
  /\ buckets[1].start = r.start
  /\ buckets[Len(buckets)].end = r.end
  /\ \A i \in 1 .. (Len(buckets) - 1) :
       buckets[i + 1].start = Instant(DayOf(buckets[i].end) + 1, 0)
  /\ \A i \in 1 .. Len(buckets) :
       /\ buckets[i].start <= buckets[i].end
       /\ TimeOf(buckets[i].end) = TicksPerDay - 1
       /\ PeriodOf(buckets[i].start, unit) = PeriodOf(buckets[i].end, unit)

\* C13: for every range with start <= end, its start at the start and its
\* end at the end of a day, and every unit of day, week, month, quarter and
\* year, splitRange and splitIntoBuckets return buckets in order of which
\* the first starts at range.start, the last ends at range.end, each next one
\* starts on the day after the previous one ends and none crosses a boundary
\* of the unit: they are contiguous, do not overlap and cover the range.
C13_SplitRange ==
  op \in {"splitRange", "splitIntoBuckets"} =>
    DividesRange(result, arg.range, arg.unit)

\* a range from the end of one month to the middle of the month after next,
\* split by months into a part, a whole and a part
C13_Witness ==
  /\ op = "splitRange"
  /\ arg.unit = "month"
  /\ Len(result) = 3
  /\ DateOf(result[1].start) > 1
  /\ result[2].end = EndOfMonth(result[2].start)
  /\ DateOf(result[3].end) < 28
  /\ result[3].end = arg.range.end

\* the days a list of ranges covers, and the ranges of a list that lie
\* within a range
DaysCovered(ranges) ==
  UNION {DayOf(ranges[i].start) .. DayOf(ranges[i].end) : i \in 1 .. Len(ranges)}

MembersOf(r, ranges) ==
  {i \in 1 .. Len(ranges) : r.start <= ranges[i].start /\ ranges[i].end <= r.end}

ProperRanges(ranges) == \A i \in 1 .. Len(ranges) : ranges[i].start <= ranges[i].end

\* C14: mergeRanges returns ranges sorted by start in which two ranges are
\* merged exactly when they overlap or are adjacent, the next one starting no
\* later than the day after the merged end: the result covers the days of
\* the input and no others, its ranges lie more than a day apart, each runs
\* from the earliest start to the latest end of its members, and the merged
\* ones are labelled 'Merged Range'.
C14_MergeRanges ==
  (op = "mergeRanges" /\ ProperRanges(arg.ranges)) =>
    /\ DaysCovered(result) = DaysCovered(arg.ranges)
    /\ \A i \in 1 .. (Len(result) - 1) :
         DayOf(result[i + 1].start) > DayOf(result[i].end) + 1
    /\ \A i \in 1 .. Len(result) :
         /\ MembersOf(result[i], arg.ranges) # {}
         /\ \E j \in MembersOf(result[i], arg.ranges) : arg.ranges[j].start = result[i].start
         /\ \E j \in MembersOf(result[i], arg.ranges) : arg.ranges[j].end = result[i].end
         /\ Cardinality(MembersOf(result[i], arg.ranges)) > 1 => result[i].label = "Merged Range"

\* C15: mergeRanges is idempotent: for any list of ranges, in any order,
\* overlapping, nested or inverted, merging the merged list again returns it
\* unchanged in the number, the order, the start, the end and the label of
\* its ranges.
C15_MergeIdempotent ==
  op = "mergeRanges" => mergeRanges(result) = result

\* a list out of order with an inverted range, of which two ranges merge and
\* one stays apart
C15_Witness ==
  /\ op = "mergeRanges"
  /\ Len(arg.ranges) = 3
  /\ arg.ranges[1].start > arg.ranges[2].start
  /\ \E i \in 1 .. 3 : arg.ranges[i].start > arg.ranges[i].end
  /\ Len(result) = 2
  /\ result[1].label = "Merged Range"
  /\ result[2].label = "Custom Range"

\* C16: for any non-empty list X of ranges with start <= end, merging X
\* together with the gaps found between the ranges of mergeRanges(X) yields
\* exactly one range, from the earliest start to the latest end of X.
C16_GapsComplementMerge ==
  (op = "mergeRanges" /\ arg.ranges # <<>> /\ ProperRanges(arg.ranges)) =>
    LET refilled == mergeRanges(arg.ranges \o findRangeGaps(result))
    IN /\ Len(refilled) = 1
       /\ \A i \in 1 .. Len(arg.ranges) :
            /\ refilled[1].start <= arg.ranges[i].start
            /\ arg.ranges[i].end <= refilled[1].end
       /\ \E i \in 1 .. Len(arg.ranges) : refilled[1].start = arg.ranges[i].start
       /\ \E i \in 1 .. Len(arg.ranges) : refilled[1].end = arg.ranges[i].end

\* three ranges more than a day apart from one another, with two gaps
C16_Witness ==
  /\ op = "mergeRanges"
  /\ ProperRanges(arg.ranges)
  /\ Len(result) = 3
  /\ Len(findRangeGaps(result)) = 2
  /\ Len(mergeRanges(arg.ranges \o findRangeGaps(result))) = 1

\* the call ended with a thrown error and no result
IsThrown(r) == "error" \in DOMAIN r

\* C17 as claimed: mergeRanges applied to an empty list of ranges fails with
\* an error and returns no result, at every entry point: the analytics
\* service's method and the data-range function.
C17_MergeEmptyFails ==
  (op \in {"mergeRanges", "AnalyticsRangeService.mergeRanges"} /\ arg.ranges = <<>>) =>
    IsThrown(result)

\* C17, amended: the analytics service's mergeRanges fails with the error
\* 'Cannot merge empty ranges array' exactly when the list is empty, and
\* returns one range otherwise; the data-range function mergeRanges returns
\* the empty list for the empty list and does not fail.
C17_MergeEmpty ==
  /\ op = "AnalyticsRangeService.mergeRanges" =>
       /\ IsThrown(result) <=> arg.ranges = <<>>
       /\ IsThrown(result) => result.error = "Cannot merge empty ranges array"
       /\ ~IsThrown(result) => result.label = "Merged Range"
  /\ (op = "mergeRanges" /\ arg.ranges = <<>>) => result = <<>>

\* the service's mergeRanges called with the empty list
C17_Witness ==
  /\ op = "AnalyticsRangeService.mergeRanges"
  /\ arg.ranges = <<>>
  /\ IsThrown(result)

\* the ranges a range operation returned: the one range of a preset, a custom
\* range, a range of the last days, weeks or months and a comparison range,
\* and the ranges of the list of a split, a merge and the gaps
SingleRangeOps ==
  {"range", "customRange", "rangeFromDays", "rangeFromWeeks", "rangeFromMonths",
   "comparePreviousPeriod", "compareYearOverYear"}

RangeListOps == {"splitRange", "mergeRanges", "findRangeGaps"}

IsNormalized(r) ==
  /\ r.start = StartOfDay(r.start)
  /\ r.end = EndOfDay(r.end)
  /\ DayOf(r.start) <= DayOf(r.end) => r.start <= r.end

\* C18: every DateRange a range operation returns, given normalized input
\* ranges, starts at a start of day and ends at an end of day, and so has
\* start <= end whenever it covers at least one day.
C18_RangesNormalized ==
  /\ op \in SingleRangeOps => IsNormalized(result)
  /\ op \in RangeListOps => \A i \in 1 .. Len(result) : IsNormalized(result[i])

----------------------------------------------------------------------------
(* Properties of the DayjsFactory                                          *)

\* the plugins the registry holds
RegisteredIn(plugins) == ElementsOf(getPlugins(plugins))

\* C19: the registry of a factory tracks plugins by identity: after use(p),
\* for a named or an anonymous p, hasPlugin(p) is true and
\* getRegisteredPlugins() contains p; use(p) of a registered p leaves
\* getPluginCount() unchanged and use(q) of a plugin q not yet registered
\* raises it by exactly one, also when q has the name of a registered plugin.
C19_RegistryByIdentity ==
  [][op' = "use" =>
       LET f == arg'.factory
           p == arg'.plugin
       IN /\ \A key \in getPluginKey(p) : has(factories'[f].plugins, key)
          /\ p \in RegisteredIn(factories'[f].plugins)
          /\ getPluginCount(factories'[f].plugins) =
               getPluginCount(factories[f].plugins)
                 + (IF p \in RegisteredIn(factories[f].plugins) THEN 0 ELSE 1)]_vars

\* a step leaves what getConfig() of the factory returns, and how
\* isBusinessDay evaluates on the instances it created, as they were
Untouched(f) ==
  /\ getConfig(heap', factories'[f]) = getConfig(heap, factories[f])
  /\ \A i \in 1 .. Len(instances) :
       instances[i].factory = f =>
         instanceIsBusinessDay(heap', instances'[i]) = instanceIsBusinessDay(heap, instances[i])

\* C20: the configuration of a factory is isolated from everything outside
\* it: once the factory is constructed or configured, a change the caller
\* makes to the businessRules object it gave or to its workdays or holidays
\* arrays, a change to a value that getConfig() returned, and the
\* construction and configuration of another factory leave what getConfig()
\* of the factory returns and how isBusinessDay evaluates on its instances
\* unchanged.
C20_ConfigIsolated ==
  [][\A f \in 1 .. Len(factories) :
       ~(op' = "configure" /\ arg'.factory = f) => Untouched(f)]_vars

----------------------------------------------------------------------------
(* Properties of adjustForNonBusinessDay                                   *)

\* the date the deferral starts from, the Monday after a weekend with
\* skipWeekends, and the date after k of its steps
DeferralStart(t, cfg) ==
  IF ~cfg.skipWeekends \/ DayOfWeek(t) \in 1 .. 5 THEN t
  ELSE Instant(CHOOSE d \in (DayOf(t) + 1) .. (DayOf(t) + 2) : (d + 4) % 7 = 1, TimeOf(t))

\* with skipWeekends the k-th weekday after the start, which is a weekday
\* itself, else the k-th day after it
DeferredBy(t, k, cfg) ==
  LET start == DeferralStart(t, cfg)
      monday == DayOf(start) - (DayOfWeek(start) - 1)
      n == (DayOfWeek(start) - 1) + k
  IN IF cfg.skipWeekends
     THEN Instant(monday + 7 * (n \div 5) + (n % 5), TimeOf(t))
     ELSE Instant(DayOf(start) + k, TimeOf(t))

IsListedHoliday(t, cfg) == CivilFromDays(DayOf(t)) \in cfg.holidays

\* the holiday loop runs at all, and it runs out of its 30 attempts
LoopRuns(cfg) == cfg.skipHolidays /\ cfg.holidays # {}

Exhausted(t, cfg) ==
  /\ LoopRuns(cfg)
  /\ \A k \in 0 .. (MaxHolidayAttempts - 1) : IsListedHoliday(DeferredBy(t, k, cfg), cfg)

\* C21: adjustForNonBusinessDay never returns a date earlier than its input;
\* with skipWeekends the date returned is no Saturday and no Sunday; with
\* skipHolidays the date returned is no listed holiday whenever a date that
\* is no holiday is reached within the 30 steps, weekends being skipped
\* again after every step: it is the first such date.
C21_AdjustForNonBusinessDay ==
  op = "adjustForNonBusinessDay" =>
    /\ result >= arg.date
    /\ billingConfig.skipWeekends => DayOfWeek(result) \in 1 .. 5
    /\ (LoopRuns(billingConfig) /\ ~Exhausted(arg.date, billingConfig)) =>
         /\ ~IsListedHoliday(result, billingConfig)
         /\ \E k \in 0 .. (MaxHolidayAttempts - 1) :
              /\ result = DeferredBy(arg.date, k, billingConfig)
              /\ \A j \in 0 .. (k - 1) :
                   IsListedHoliday(DeferredBy(arg.date, j, billingConfig), billingConfig)
    /\ (LoopRuns(billingConfig)
          /\ \E k \in 0 .. MaxHolidayAttempts :
               ~IsListedHoliday(DeferredBy(arg.date, k, billingConfig), billingConfig)) =>
         ~IsListedHoliday(result, billingConfig)

\* a Saturday deferred over the weekend and over holidays from the Monday on
C21_Witness ==
  /\ op = "adjustForNonBusinessDay"
  /\ billingConfig.skipWeekends
  /\ billingConfig.skipHolidays
  /\ DayOfWeek(arg.date) = 6
  /\ IsListedHoliday(AddDays(arg.date, 2), billingConfig)
  /\ DayOf(result) > DayOf(arg.date) + 2
  /\ ~Exhausted(arg.date, billingConfig)

\* C22 as claimed: when the holidays are so dense that the 30 attempts are
\* used up, the loop stops without an error and the date is left
\* un-deferred: the date returned is the date that was passed in.
C22_ExhaustedUndeferred ==
  (op = "adjustForNonBusinessDay" /\ Exhausted(arg.date, billingConfig)) =>
    result = arg.date

\* C22, amended: when the 30 attempts are used up the loop stops without an
\* error and the date returned is the date reached by the 30 steps, at least
\* 30 days after the date passed in, a listed holiday or not.
C22_ExhaustedBestEffort ==
  (op = "adjustForNonBusinessDay" /\ Exhausted(arg.date, billingConfig)) =>
    /\ result = DeferredBy(arg.date, MaxHolidayAttempts, billingConfig)
    /\ DayOf(result) >= DayOf(arg.date) + MaxHolidayAttempts
    /\ TimeOf(result) = TimeOf(arg.date)

\* the attempts used up and the date returned still a listed holiday
C22_Witness ==
  /\ op = "adjustForNonBusinessDay"
  /\ Exhausted(arg.date, billingConfig)
  /\ IsListedHoliday(result, billingConfig)

----------------------------------------------------------------------------
(* Properties of the subscription-cycle plugin against the service         *)

MonthIndex(t) == YearOf(t) * 12 + MonthOf(t)

MonthlyCycles == {"monthly", "quarterly", "yearly"}

\* C23: with weekend skipping off, the plugin's nextBillingDate(cycle,
\* billingDay) is the calendar day of the service's getNextBillingDate(date,
\* cycle, billingDay), and consecutive dates of getBillingDatesInRange are as
\* many months apart as the cycle has
C23_PluginMatchesService ==
  /\ (/\ op = "nextBillingDate"
      /\ arg.cycle \in MonthlyCycles
      /\ ~subscriptionConfig.skipWeekends
      /\ ~billingConfig.skipWeekends)
     => IsSameDay(result,
                  getNextBillingDate(date, arg.cycle,
                                     <<OrDefault(arg.billingDay, subscriptionConfig.billingDay)>>,
                                     billingConfig))
  /\ (/\ op = "getBillingDatesInRange"
      /\ arg.cycle \in {"quarterly", "yearly"}
      /\ ~subscriptionConfig.skipWeekends)
     => \A i \in 1 .. (Len(result) - 1) :
          MonthIndex(result[i + 1]) - MonthIndex(result[i]) = getCycleMonths(arg.cycle)

----------------------------------------------------------------------------
(* Properties of the billing dates around a date                           *)

\* C24: under every service configuration getPreviousBillingDate(d) is on a
\* day before d and getNextBillingDate(d) on a day after d, so that
\* daysInCurrentCycle > 0 and 0 <= days since the previous billing date <
\* daysInCurrentCycle
C24_BillingDatesBracket ==
  /\ op = "getPreviousBillingDate" => DayOf(result) < DayOf(date)
  /\ op = "getNextBillingDate" => DayOf(result) > DayOf(date)
  /\ op = "getBillingCycleInfo" =>
       /\ result.daysInCurrentCycle > 0
       /\ 0 <= result.cycleProgress.num
       /\ result.cycleProgress.num < result.daysInCurrentCycle

----------------------------------------------------------------------------
(* addBusinessDays followed by businessDaysBetween                         *)

\* C25 as stated: businessDaysBetween(d, addBusinessDays(d, n)) = n for every
\* date d and every n, positive, zero or negative
C25_RoundTripEveryDate ==
  op = "addBusinessDays" =>
    businessDaysBetween(date, result, workdays, holidays) = arg

\* C25: businessDaysBetween(d, addBusinessDays(d, n)) = n for n >= 0 on every
\* date d and for n < 0 on a business day d; for n < 0 on a date d that is
\* not a business day it is n + 1, the date itself not being counted
C25_RoundTrip ==
  op = "addBusinessDays" =>
    businessDaysBetween(date, result, workdays, holidays) =
      IF arg < 0 /\ ~isBusinessDay(date, workdays, holidays) THEN arg + 1 ELSE arg

C25_Witness ==
  /\ op = "addBusinessDays"
  /\ arg = -MaxDays
  /\ ~isBusinessDay(date, workdays, holidays)
  /\ holidays # <<>>
  /\ businessDaysBetween(date, result, workdays, holidays) = arg + 1

----------------------------------------------------------------------------
(* The fiscal period index                                                 *)

\* C26: under every fiscal config fiscalYear * 4 + fiscalQuarter does not
\* decrease with the date: for a <= b, fiscalQuartersBetween(a, b) >= 0, and
\* it is 0 exactly when a and b have the same startOfFiscalQuarter
C26_PeriodIndexMonotone ==
  (op = "fiscalQuartersBetween" /\ date <= arg) =>
    /\ result >= 0
    /\ result = 0 <=>
         getFiscalQuarterStart(date, fiscalConfig) = getFiscalQuarterStart(arg, fiscalConfig)

----------------------------------------------------------------------------
(* The gaps of findRangeGaps                                               *)

DaysOfRange(r) == DayOf(r.start) .. DayOf(r.end)

\* C27: for ranges with start <= end in any order, overlapping and nested
\* ones included, every gap of findRangeGaps has start <= end and contains no
\* day that an input range covers
C27_GapsUncovered ==
  (op = "findRangeGaps" /\ ProperRanges(arg.ranges)) =>
    \A i \in 1 .. Len(result) :
      /\ result[i].start <= result[i].end
      /\ DaysOfRange(result[i]) \cap DaysCovered(arg.ranges) = {}

----------------------------------------------------------------------------
(* Properties of the configuration in strict mode                          *)

StoredConfigValid(f) ==
  factories[f].strict =>
    /\ validateTimezone(factories[f].timezone) = ""
    /\ validateLocale(factories[f].locale) = ""
    /\ validateBusinessRules(heap, factories[f].businessRules) = ""

\* a configure() call that throws ValidationError
ConfigureThrows ==
  /\ op' = "configure"
  /\ validateUpdates(heap, factories[arg'.factory], arg'.updates) # ""

\* C28: in every state a factory reaches through its constructor and
\* configure() calls, a stored configuration with strict = true has a
\* timezone, a locale and businessRules that pass their validators; and a
\* configure() call that throws leaves the stored configuration unchanged
C28_StrictConfigValid ==
  /\ [](\A f \in 1 .. Len(factories) : StoredConfigValid(f))
  /\ [][ConfigureThrows =>
          getConfig(heap', factories'[arg'.factory]) = getConfig(heap, factories[arg'.factory])]_vars

----------------------------------------------------------------------------
(* The business days of a range                                            *)

BusinessDaysOfRange(start, end, wd, hs) ==
  {d \in DayOf(start) .. DayOf(end) : isBusinessDay(Instant(d, TimeOf(start)), wd, hs)}

\* C29: countBusinessDaysInRange(start, end, config) is the number of days
\* from start to end, both included, on which the plugin's isBusinessDay
\* holds under the same workdays and holidays, recurring holidays included,
\* and hasBusinessDaysInRange is true exactly when that number is not 0
C29_CountMatchesIsBusinessDay ==
  /\ op = "countBusinessDaysInRange" =>
       result = Cardinality(BusinessDaysOfRange(date, arg, workdays, holidays))
  /\ op = "hasBusinessDaysInRange" =>
       result = (BusinessDaysOfRange(date, arg, workdays, holidays) # {})

----------------------------------------------------------------------------
(* Billing due within the grace period                                     *)

\* the whole days from a day-aligned date to the next billing date of the
\* service and of the plugin
DaysUntilServiceBilling ==
  DayOf(getNextBillingDate(date, arg.cycle, arg.billingDay, billingConfig)) - DayOf(date)

DaysUntilPluginBilling ==
  DayOf(nextBillingDate(date, arg.cycle, arg.billingDay, subscriptionConfig)) - DayOf(date)

\* C30: for a day-aligned date the next billing date is at least one day
\* away, so with a grace period of 0 isBillingDue and isDueForRenewal are
\* false on every date, a billing date included; isBillingDue is true exactly
\* when the days until the next billing date are <= gracePeriodDays
C30_BillingDue ==
  /\ (op = "isBillingDue" /\ TimeOf(date) = 0) =>
       /\ DaysUntilServiceBilling >= 1
       /\ result = (DaysUntilServiceBilling <= billingConfig.gracePeriodDays)
       /\ billingConfig.gracePeriodDays = 0 => result = FALSE
  /\ (op = "isDueForRenewal" /\ TimeOf(date) = 0) =>
       /\ DaysUntilPluginBilling >= 1
       /\ result = (DaysUntilPluginBilling <= OrDefault(arg.gracePeriodDays, 0))
       /\ OrDefault(arg.gracePeriodDays, 0) = 0 => result = FALSE

\* 2024-01-15, itself the billing date of billing day 15, with no grace period
C30_Witness ==
  /\ op = "isBillingDue"
  /\ date = Instant(DaysFromCivil(2024, 1, 15), 0)
  /\ arg.cycle = "monthly"
  /\ arg.billingDay = <<15>>
  /\ billingConfig.gracePeriodDays = 0
  /\ result = FALSE

====
